---- MODULE Spec2Model ----
(***************************************************************************)
(* The post-update pipeline of the REST compatibility layer:               *)
(* route handler -> withTransaction -> authenticateRequest ->              *)
(* handlePostUpdate (load, checkPermissions, prepareItemForDatabase,       *)
(* uniquePostSlug, updatePost, side effects, buildPostResponse).           *)
(*                                                                         *)
(* The database is one record (db) holding the tables the pipeline reads   *)
(* and writes.  One action, Update, handles one whole request.             *)
(***************************************************************************)
EXTENDS Integers, Sequences, FiniteSets, TLC

VARIABLES
  db,    \* committed database: wp_posts, wp_postmeta, term tables, options
  now,   \* the database clock, in seconds (NOW() / UTC_TIMESTAMP())
  nreq,  \* number of requests handled so far
  last,  \* the last request handled: input, principal, database before, result
  pool,  \* the connection pool and the executions of withTransaction in progress
  run,   \* the request being handled step by step
  tz,    \* the time zone of the server process, in hours east of UTC
  race,  \* the transactions of requests handled at the same time
  loop   \* a call of uniquePostSlug, one evaluation of the loop condition at a time

vars == <<db, now, nreq, last, pool, run, tz, race, loop>>

\* Number of requests handled in one behaviour.
MaxRequests == 2

(***************************************************************************)
(* Stored accounts, roles and credentials (read-only for this endpoint).   *)
(***************************************************************************)

\* wp_users rows, by ID.
wp_users ==
  1 :> [user_login |-> "ed"]  @@
  2 :> [user_login |-> "con"] @@
  3 :> [user_login |-> "rev"] @@
  4 :> [user_login |-> "aut"] @@
  5 :> [user_login |-> "new"]

\* usermeta {prefix}capabilities: role name -> assigned.
wp_capabilities ==
  1 :> [editor |-> TRUE] @@
  2 :> [contributor |-> TRUE, editor |-> FALSE] @@
  3 :> [reviewer |-> TRUE, ghost |-> TRUE] @@
  4 :> [author |-> TRUE, contributor |-> TRUE] @@
  5 :> [editor |-> TRUE]

\* option {prefix}user_roles: role name -> capabilities (capability -> granted).
wp_user_roles ==
  [editor |-> [capabilities |->
      [edit_posts |-> TRUE, edit_others_posts |-> TRUE,
       edit_published_posts |-> TRUE, edit_private_posts |-> TRUE,
       publish_posts |-> TRUE, manage_categories |-> TRUE]],
   author |-> [capabilities |->
      [edit_posts |-> TRUE, edit_published_posts |-> TRUE,
       publish_posts |-> TRUE, edit_others_posts |-> FALSE]],
   contributor |-> [capabilities |->
      [edit_posts |-> TRUE, publish_posts |-> FALSE]],
   reviewer |-> [capabilities |->
      [edit_others_posts |-> TRUE, edit_published_posts |-> TRUE,
       edit_posts |-> FALSE]]]

\* bcrypt: a hash of a secret, and its verification.
bcryptHash(secret) == <<"bcrypt", secret>>

compare(password, hash) == hash = bcryptHash(password)

\* usermeta _application_passwords: the stored credential hashes of an account.
wp_application_passwords ==
  1 :> <<[password |-> bcryptHash("old:ed")], [password |-> bcryptHash("pw-ed")]>> @@
  2 :> <<[password |-> bcryptHash("pw-con")]>> @@
  3 :> <<[password |-> bcryptHash("pw-rev")]>> @@
  4 :> <<[password |-> bcryptHash("pw-aut")]>>

\* The stored credential hashes of an account; none when it has no
\* _application_passwords row.
getApplicationPasswords(userId) ==
  IF userId \in DOMAIN wp_application_passwords
    THEN wp_application_passwords[userId]
    ELSE <<>>

NoUser == [id |-> 0, login |-> "", roles |-> {}, allcaps |-> {}]

userExists(userId) == userId \in DOMAIN wp_users

getUserByLogin(login) ==
  {id \in DOMAIN wp_users : wp_users[id].user_login = login}

\* Mutant of resolveUserCapabilities: a capability an assigned role maps to
\* false is removed from the merged set.
resolveUserCapabilities_DenyOverrides(userId, login) ==
  LET userCaps == wp_capabilities[userId]
      roles    == {r \in DOMAIN userCaps : userCaps[r]}
      defined  == roles \cap DOMAIN wp_user_roles
      mapped(role, v) ==
        {c \in DOMAIN wp_user_roles[role].capabilities :
            wp_user_roles[role].capabilities[c] = v}
  IN [id |-> userId, login |-> login, roles |-> roles,
      allcaps |-> UNION {mapped(r, TRUE) : r \in defined}
                    \ UNION {mapped(r, FALSE) : r \in defined}]

\* The principal's roles are the role names mapped to true; its resolved
\* capabilities are those some assigned, defined role maps to true.
resolveUserCapabilities(userId, login) ==
  LET userCaps == wp_capabilities[userId]
      roles    == {r \in DOMAIN userCaps : userCaps[r]}
      granted(role) ==
        IF role \in DOMAIN wp_user_roles
          THEN {c \in DOMAIN wp_user_roles[role].capabilities :
                   wp_user_roles[role].capabilities[c]}
          ELSE {}
  IN [id |-> userId, login |-> login, roles |-> roles,
      allcaps |-> UNION {granted(r) : r \in roles}]

\* An Authorization header: none, or a scheme followed by credentials.  The
\* credentials are given as Buffer.from(.., 'base64') decodes them: a
\* sequence of pieces, each a colon, a whitespace character or a run of
\* other characters.
NoHeader == [scheme |-> "none", credentials |-> <<>>]

Basic(login, secret) ==
  [scheme |-> "Basic", credentials |-> <<login, ":", secret>>]

\* String.indexOf: the position of the first piece equal to c, 0 when none.
indexOf(decoded, c) ==
  IF \E i \in 1..Len(decoded) : decoded[i] = c
    THEN CHOOSE i \in 1..Len(decoded) :
           decoded[i] = c /\ \A j \in 1..(i - 1) : decoded[j] # c
    ELSE 0

\* The string the pieces spell.
RECURSIVE Spell(_)
Spell(pieces) ==
  IF pieces = <<>> THEN "" ELSE Head(pieces) \o Spell(Tail(pieces))

\* replace(/\s/g, ''): the pieces without the whitespace.
StripWhitespace(pieces) == SelectSeq(pieces, LAMBDA c : c # " ")

\* Mutant of authenticateRequest: the secret is compared as sent, with its
\* whitespace.
authenticateRequest_KeepsWhitespace(authHeader) ==
  IF authHeader.scheme # "Basic" THEN NoUser
  ELSE
    LET decoded == authHeader.credentials
        colonIndex == indexOf(decoded, ":")
    IN IF colonIndex = 0 THEN NoUser
       ELSE
         LET username == Spell(SubSeq(decoded, 1, colonIndex - 1))
             password == Spell(SubSeq(decoded, colonIndex + 1, Len(decoded)))
         IN IF username = "" \/ password = "" THEN NoUser
            ELSE LET found == getUserByLogin(username) IN
              IF found = {} THEN NoUser
              ELSE LET id == CHOOSE u \in found : TRUE
                       appPasswords == getApplicationPasswords(id)
                   IN IF \E i \in 1..Len(appPasswords) :
                             compare(password, appPasswords[i].password)
                        THEN resolveUserCapabilities(id, wp_users[id].user_login)
                        ELSE NoUser

authenticateRequest(authHeader) ==
  IF authHeader.scheme # "Basic" THEN NoUser
  ELSE
    LET decoded == authHeader.credentials
        colonIndex == indexOf(decoded, ":")
    IN IF colonIndex = 0 THEN NoUser
       ELSE
         LET username == Spell(SubSeq(decoded, 1, colonIndex - 1))
             password == Spell(StripWhitespace(
                           SubSeq(decoded, colonIndex + 1, Len(decoded))))
         IN IF username = "" \/ password = "" THEN NoUser
            ELSE LET found == getUserByLogin(username) IN
              IF found = {} THEN NoUser
              ELSE LET id == CHOOSE u \in found : TRUE
                       appPasswords == getApplicationPasswords(id)
                   IN IF appPasswords = <<>> THEN NoUser
                      ELSE IF \E i \in 1..Len(appPasswords) :
                             compare(password, appPasswords[i].password)
                        THEN resolveUserCapabilities(id, wp_users[id].user_login)
                        ELSE NoUser

(***************************************************************************)
(* Capabilities (lib/auth/capabilities.ts).                                *)
(***************************************************************************)

\* Mutant of mapMetaCap: the status of another author's item is not looked at.
mapMetaCap_IgnoresStatusOfOthers(cap, user, post) ==
  IF cap = "edit_post"
    THEN IF post.post_author = user.id
           THEN IF post.post_status \in {"publish", "future"}
                  THEN {"edit_published_posts"}
                  ELSE {"edit_posts"}
           ELSE {"edit_others_posts"}
    ELSE {cap}

mapMetaCap(cap, user, post) ==
  IF cap = "edit_post"
    THEN IF post.post_author = user.id
           THEN IF post.post_status \in {"publish", "future"}
                  THEN {"edit_published_posts"}
                  ELSE {"edit_posts"}
           ELSE {"edit_others_posts"} \cup
                (IF post.post_status \in {"publish", "future"}
                   THEN {"edit_published_posts"}
                   ELSE IF post.post_status = "private"
                          THEN {"edit_private_posts"}
                          ELSE {})
    ELSE {cap}

userCan(user, cap, post) ==
  IF cap \in {"edit_post", "delete_post", "read_post"}
    THEN \A c \in mapMetaCap(cap, user, post) : c \in user.allcaps
    ELSE cap \in user.allcaps

checkIsPostTypeAllowed(postType) == postType \in {"post", "page", "attachment"}

checkUpdatePermission(user, post) ==
  IF ~checkIsPostTypeAllowed(post.post_type) THEN FALSE
  ELSE userCan(user, "edit_post", post)

(***************************************************************************)
(* Errors and results (lib/errors/wp-error.ts).                            *)
(***************************************************************************)

NoBody == [id |-> 0]

\* new WpError(code, message, {status}) as the route turns it into a response.
WpError(code, status) == [status |-> status, code |-> code, body |-> NoBody]

isWpError(value) == value.code # "ok"

\* The rest_invalid_param response; its message is built from the first
\* issue.
InvalidParam(firstIssue) ==
  [status |-> 400, code |-> "rest_invalid_param",
   body |-> [id |-> 0, path |-> firstIssue.path, keys |-> firstIssue.keys]]

restAuthorizationRequiredCode(isAuthenticated) ==
  IF isAuthenticated THEN 403 ELSE 401

(***************************************************************************)
(* Request schema (lib/validation/post-update-schema.ts).  A body is a     *)
(* record holding the fields the payload carries.                          *)
(***************************************************************************)

Has(body, field) == field \in DOMAIN body

SchemaFields ==
  {"title", "content", "excerpt", "status", "date", "date_gmt", "slug",
   "author", "password", "featured_media", "sticky", "template", "format",
   "comment_status", "ping_status", "parent", "menu_order", "categories",
   "tags", "meta"}

StatusEnum == {"publish", "future", "draft", "pending", "private", "trash"}

FormatEnum ==
  {"standard", "aside", "chat", "gallery", "link", "image", "quote",
   "status", "video", "audio"}

\* Mutant of postUpdateSchema: status is any string.
postUpdateSchema_AnyStatus(body) ==
  /\ DOMAIN body \subseteq SchemaFields
  /\ Has(body, "author") => body.author > 0
  /\ Has(body, "featured_media") => body.featured_media >= 0
  /\ Has(body, "format") => body.format \in FormatEnum
  /\ Has(body, "comment_status") => body.comment_status \in {"open", "closed"}
  /\ Has(body, "ping_status") => body.ping_status \in {"open", "closed"}
  /\ Has(body, "parent") => body.parent >= 0
  /\ Has(body, "categories") =>
       \A i \in 1..Len(body.categories) : body.categories[i] > 0
  /\ Has(body, "tags") => \A i \in 1..Len(body.tags) : body.tags[i] > 0

\* postUpdateSchema.safeParse(rawBody).success
postUpdateSchema(body) ==
  /\ DOMAIN body \subseteq SchemaFields
  /\ Has(body, "status") => body.status \in StatusEnum
  /\ Has(body, "author") => body.author > 0
  /\ Has(body, "featured_media") => body.featured_media >= 0
  /\ Has(body, "format") => body.format \in FormatEnum
  /\ Has(body, "comment_status") => body.comment_status \in {"open", "closed"}
  /\ Has(body, "ping_status") => body.ping_status \in {"open", "closed"}
  /\ Has(body, "parent") => body.parent >= 0
  /\ Has(body, "categories") =>
       \A i \in 1..Len(body.categories) : body.categories[i] > 0
  /\ Has(body, "tags") => \A i \in 1..Len(body.tags) : body.tags[i] > 0

\* The fields of the schema in the order of their declaration.
SchemaOrder ==
  <<"title", "content", "excerpt", "status", "date", "date_gmt", "slug",
    "author", "password", "featured_media", "sticky", "template", "format",
    "comment_status", "ping_status", "parent", "menu_order", "categories",
    "tags", "meta">>

\* An issue of safeParse: path.join('.') and, for the unrecognized_keys
\* issue of the strict object, the keys its message lists.
Issue(path, keys) == [path |-> path, keys |-> keys]

\* The issues of the elements of an id list from position i on; the path of
\* an element is the field and the element's index, counted from 0.
RECURSIVE ElementIssues(_, _, _)
ElementIssues(field, ids, i) ==
  IF i > Len(ids) THEN <<>>
  ELSE (IF ids[i] > 0 THEN <<>>
        ELSE <<Issue(field \o "." \o ToString(i - 1), {})>>)
       \o ElementIssues(field, ids, i + 1)

\* The issues the validator of one declared field raises.
FieldIssues(body, f) ==
  IF ~Has(body, f) THEN <<>>
  ELSE IF f \in {"categories", "tags"} THEN ElementIssues(f, body[f], 1)
  ELSE IF \/ f = "status" /\ body[f] \notin StatusEnum
          \/ f = "author" /\ body[f] <= 0
          \/ f = "featured_media" /\ body[f] < 0
          \/ f = "format" /\ body[f] \notin FormatEnum
          \/ f \in {"comment_status", "ping_status"}
               /\ body[f] \notin {"open", "closed"}
          \/ f = "parent" /\ body[f] < 0
    THEN <<Issue(f, {})>>
  ELSE <<>>

RECURSIVE DeclaredIssues(_, _)
DeclaredIssues(body, i) ==
  IF i > Len(SchemaOrder) THEN <<>>
  ELSE FieldIssues(body, SchemaOrder[i]) \o DeclaredIssues(body, i + 1)

\* Mutant of schemaIssues: the unrecognized keys are reported first.
schemaIssues_UnrecognizedFirst(body) ==
  (IF DOMAIN body \subseteq SchemaFields THEN <<>>
   ELSE <<Issue("", DOMAIN body \ SchemaFields)>>)
  \o DeclaredIssues(body, 1)

\* postUpdateSchema.safeParse(rawBody).error.issues: the issues of the
\* declared fields in declaration order, then the unrecognized keys.
schemaIssues(body) ==
  DeclaredIssues(body, 1)
  \o (IF DOMAIN body \subseteq SchemaFields THEN <<>>
      ELSE <<Issue("", DOMAIN body \ SchemaFields)>>)

\* title/content/excerpt: a bare string <<"string", s>> or an object
\* <<"object", s>> carrying s as its raw property.
extractRawValue(field) ==
  IF field[1] = "string" THEN field[2]
  ELSE IF field[1] = "object" THEN field[2]
  ELSE ""

(***************************************************************************)
(* Status and dates (validateAndNormalizeStatus, lib/validation/date).     *)
(***************************************************************************)

\* Mutant of validateAndNormalizeStatus: publish_posts is not required.
validateAndNormalizeStatus_NoCapability(postStatus, user) ==
  IF postStatus \in {"draft", "pending", "private", "publish", "future"}
    THEN [code |-> "ok", value |-> postStatus]
    ELSE [code |-> "ok", value |-> "draft"]

validateAndNormalizeStatus(postStatus, user) ==
  IF postStatus \in {"draft", "pending"} THEN [code |-> "ok", value |-> postStatus]
  ELSE IF postStatus \in {"private", "publish", "future"}
    THEN IF "publish_posts" \notin user.allcaps
           THEN WpError("rest_cannot_publish",
                        IF "edit_posts" \in user.allcaps THEN 403 ELSE 401)
           ELSE [code |-> "ok", value |-> postStatus]
    ELSE [code |-> "ok", value |-> "draft"]

\* '0000-00-00 00:00:00'; every other stored datetime is a positive number
\* of hours.
ZeroDate == 0

\* A date string of a payload: <<"iso", h>> is a date-time without zone
\* designator whose digits read hour h, <<"isoz", h, z>> one with the
\* designator of z hours east of UTC, <<"text", s>> no date at all.
\* new Date(dateString): the instant, in hours since the epoch, or NaN.  A
\* date-time without designator is read in the time zone of the process.
NaN == -999999

NewDate(dateString) ==
  IF dateString[1] = "iso" THEN dateString[2] - tz
  ELSE IF dateString[1] = "isoz" THEN dateString[2] - dateString[3]
  ELSE NaN

\* The digits of an instant in UTC (getUTCFullYear .. getUTCSeconds).
formatMysqlDatetime(date) == date

\* Mutant of restGetDateWithGmt: the offset is applied in the other
\* direction.
restGetDateWithGmt_OffsetReversed(dateString, isUtc, gmtOffset) ==
  LET parsed == NewDate(dateString) IN
  IF parsed = NaN THEN <<>>
  ELSE IF isUtc
    THEN <<formatMysqlDatetime(parsed - gmtOffset), formatMysqlDatetime(parsed)>>
    ELSE <<formatMysqlDatetime(parsed), formatMysqlDatetime(parsed + gmtOffset)>>

\* Mutant of restGetDateWithGmt: a string that does not parse gives the zero
\* date.
restGetDateWithGmt_NaNResets(dateString, isUtc, gmtOffset) ==
  LET parsed == NewDate(dateString) IN
  IF parsed = NaN THEN <<ZeroDate, ZeroDate>>
  ELSE IF isUtc
    THEN <<formatMysqlDatetime(parsed + gmtOffset), formatMysqlDatetime(parsed)>>
    ELSE <<formatMysqlDatetime(parsed), formatMysqlDatetime(parsed - gmtOffset)>>

\* Returns <<local, utc>>, or <<>> for null.
restGetDateWithGmt(dateString, isUtc, gmtOffset) ==
  LET parsed == NewDate(dateString) IN
  IF parsed = NaN THEN <<>>
  ELSE IF isUtc
    THEN <<formatMysqlDatetime(parsed + gmtOffset), formatMysqlDatetime(parsed)>>
    ELSE <<formatMysqlDatetime(parsed), formatMysqlDatetime(parsed - gmtOffset)>>

\* A MySQL datetime as the wire date-time string, null for the zero date.
mysqlToRfc3339(datetime) ==
  IF datetime = ZeroDate THEN <<"null">> ELSE <<"rfc3339", datetime>>

(***************************************************************************)
(* Options (lib/db/queries/options.ts).                                    *)
(***************************************************************************)

getOption(d, name) == d.wp_options[name]

updateOption(d, name, value) ==
  [d EXCEPT !.wp_options = [@ EXCEPT ![name] = value]]

\* php-serialize of an id list, and its inverse.
serialize(postIds) == [a |-> postIds]

unserialize(raw) == raw.a

RECURSIVE SelectSeqPos(_)
SelectSeqPos(s) ==
  IF s = <<>> THEN <<>>
  ELSE IF Head(s) > 0 THEN <<Head(s)>> \o SelectSeqPos(Tail(s))
  ELSE SelectSeqPos(Tail(s))

getStickyPosts(d) == SelectSeqPos(unserialize(getOption(d, "sticky_posts")))

setStickyPosts(d, postIds) == updateOption(d, "sticky_posts", serialize(postIds))

includes(s, x) == \E i \in 1..Len(s) : s[i] = x

isSticky(d, postId) == includes(getStickyPosts(d), postId)

(***************************************************************************)
(* Post metadata (lib/db/queries/postmeta).  wp_postmeta is the sequence   *)
(* of rows in meta_id order.                                               *)
(***************************************************************************)

MetaRows(d, postId, metaKey) ==
  {i \in 1..Len(d.wp_postmeta) :
     d.wp_postmeta[i].post_id = postId /\ d.wp_postmeta[i].meta_key = metaKey}

Min(S) == CHOOSE x \in S : \A y \in S : x <= y

\* The first row's value, <<"null">> when there is none.
getPostMeta(d, postId, metaKey) ==
  IF MetaRows(d, postId, metaKey) = {} THEN <<"null">>
  ELSE <<"value", d.wp_postmeta[Min(MetaRows(d, postId, metaKey))].meta_value>>

\* Mutant of updatePostMeta: a row is inserted whether or not one exists.
updatePostMeta_AlwaysInsert(d, postId, metaKey, metaValue) ==
  [d EXCEPT !.wp_postmeta =
     Append(@, [post_id |-> postId, meta_key |-> metaKey,
                meta_value |-> metaValue])]

updatePostMeta(d, postId, metaKey, metaValue) ==
  LET existing == MetaRows(d, postId, metaKey) IN
  IF existing # {}
    THEN [d EXCEPT !.wp_postmeta[Min(existing)].meta_value = metaValue]
    ELSE [d EXCEPT !.wp_postmeta =
            Append(@, [post_id |-> postId, meta_key |-> metaKey,
                       meta_value |-> metaValue])]

RECURSIVE DropRows(_, _, _)
DropRows(rows, postId, metaKey) ==
  IF rows = <<>> THEN <<>>
  ELSE IF Head(rows).post_id = postId /\ Head(rows).meta_key = metaKey
    THEN DropRows(Tail(rows), postId, metaKey)
    ELSE <<Head(rows)>> \o DropRows(Tail(rows), postId, metaKey)

deletePostMeta(d, postId, metaKey) ==
  [d EXCEPT !.wp_postmeta = DropRows(@, postId, metaKey)]

\* Every key of the item with its first value; the public ones do not
\* start with "_".
getAllPostMeta(d, postId) ==
  LET keys == {d.wp_postmeta[i].meta_key :
                 i \in {j \in 1..Len(d.wp_postmeta) :
                          d.wp_postmeta[j].post_id = postId}}
  IN [k \in keys |-> getPostMeta(d, postId, k)[2]]

InternalKeys == {"_thumbnail_id", "_wp_page_template", "_edit_lock"}

startsWithUnderscore(key) == key \in InternalKeys

(***************************************************************************)
(* Terms (lib/db/queries/terms.ts).  wp_terms is fixed; wp_term_taxonomy   *)
(* (with its counters) and wp_term_relationships are tables of db.         *)
(***************************************************************************)

\* wp_terms rows by term_id; a slug is the sequence of its parts.
wp_terms ==
  1 :> [slug |-> <<"news">>] @@
  2 :> [slug |-> <<"misc">>] @@
  3 :> [slug |-> <<"tag1">>] @@
  4 :> [slug |-> <<"post-format-", "aside">>] @@
  5 :> [slug |-> <<"post-format-", "gallery">>]

\* term_taxonomy_ids of a term in a taxonomy.
TtIdsOf(d, termId, taxonomy) ==
  {tt \in DOMAIN d.wp_term_taxonomy :
     /\ d.wp_term_taxonomy[tt].term_id = termId
     /\ d.wp_term_taxonomy[tt].taxonomy = taxonomy}

\* term_taxonomy_ids related to an object within a taxonomy.
CurrentTtIds(d, objectId, taxonomy) ==
  {tt \in DOMAIN d.wp_term_taxonomy :
     /\ <<objectId, tt>> \in d.wp_term_relationships
     /\ d.wp_term_taxonomy[tt].taxonomy = taxonomy}

\* The term_ids assigned to an object in a taxonomy.
getObjectTerms(d, objectId, taxonomy) ==
  {d.wp_term_taxonomy[tt].term_id : tt \in CurrentTtIds(d, objectId, taxonomy)}

\* The insert loop of setObjectTerms: one relationship and one count + 1 per
\* listed id that has a term_taxonomy row.
RECURSIVE InsertTerms(_, _, _, _)
InsertTerms(d, objectId, termIds, taxonomy) ==
  IF termIds = <<>> THEN d
  ELSE LET ttRows == TtIdsOf(d, Head(termIds), taxonomy) IN
    IF ttRows = {} THEN InsertTerms(d, objectId, Tail(termIds), taxonomy)
    ELSE LET ttId == Min(ttRows)
             d1 == [d EXCEPT
                      !.wp_term_relationships = @ \cup {<<objectId, ttId>>},
                      !.wp_term_taxonomy[ttId].count = @ + 1]
         IN InsertTerms(d1, objectId, Tail(termIds), taxonomy)

\* Mutant of setObjectTerms: the listed terms are added to the current ones.
setObjectTerms_Merge(d, objectId, termIds, taxonomy) ==
  InsertTerms(d, objectId, termIds, taxonomy)

setObjectTerms(d, objectId, termIds, taxonomy) ==
  LET currentTtIds == CurrentTtIds(d, objectId, taxonomy)
      tax == d.wp_term_taxonomy
      removed ==
        IF currentTtIds # {}
          THEN [d EXCEPT
                 !.wp_term_relationships =
                    @ \ {<<objectId, tt>> : tt \in currentTtIds},
                 !.wp_term_taxonomy =
                    [tt \in DOMAIN tax |->
                       IF tt \in currentTtIds
                         THEN [tax[tt] EXCEPT
                                 !.count = IF @ - 1 > 0 THEN @ - 1 ELSE 0]
                         ELSE tax[tt]]]
          ELSE d
  IN InsertTerms(removed, objectId, termIds, taxonomy)

termExists(d, termId, taxonomy) ==
  termId \in DOMAIN wp_terms /\ TtIdsOf(d, termId, taxonomy) # {}

\* The term_id whose slug is post-format-<formatSlug> in post_format, 0 if none.
getPostFormatTermId(d, formatSlug) ==
  LET hits == {t \in DOMAIN wp_terms :
                 /\ wp_terms[t].slug = <<"post-format-", formatSlug>>
                 /\ TtIdsOf(d, t, "post_format") # {}}
  IN IF hits = {} THEN 0 ELSE Min(hits)

(***************************************************************************)
(* Posts (lib/db/queries/posts).                                           *)
(***************************************************************************)

PostExists(d, id) == id \in DOMAIN d.wp_posts

getPostById(d, id) == d.wp_posts[id]

UpdatableColumns ==
  {"post_title", "post_content", "post_excerpt", "post_status", "post_date",
   "post_date_gmt", "post_name", "post_author", "post_password",
   "post_parent", "menu_order", "comment_status", "ping_status"}

\* Mutant of updatePost: the modification timestamps are not written.
updatePost_NoTimestamps(d, id, data, t) ==
  IF ~PostExists(d, id) THEN [db |-> d, ok |-> FALSE]
  ELSE
    LET old == d.wp_posts[id]
        new == [c \in DOMAIN old |->
                  IF c \in UpdatableColumns /\ c \in DOMAIN data THEN data[c]
                  ELSE old[c]]
    IN [db |-> [d EXCEPT !.wp_posts[id] = new], ok |-> TRUE]

\* UPDATE wp_posts SET <the provided columns>, post_modified = NOW(),
\* post_modified_gmt = UTC_TIMESTAMP() WHERE ID = id, at clock reading t.
\* Returns the database and whether a row was affected.
updatePost(d, id, data, t) ==
  IF ~PostExists(d, id) THEN [db |-> d, ok |-> FALSE]
  ELSE
    LET old == d.wp_posts[id]
        new == [c \in DOMAIN old |->
                  IF c \in UpdatableColumns /\ c \in DOMAIN data THEN data[c]
                  ELSE IF c \in {"post_modified", "post_modified_gmt"} THEN t
                  ELSE old[c]]
    IN [db |-> [d EXCEPT !.wp_posts[id] = new], ok |-> TRUE]

checkSlugExists(d, slug, postType, excludePostId, postParent) ==
  \E id \in DOMAIN d.wp_posts :
    /\ d.wp_posts[id].post_name = slug
    /\ d.wp_posts[id].post_type = postType
    /\ id # excludePostId
    /\ d.wp_posts[id].post_parent = postParent

isValidAttachment(d, attachmentId) ==
  \E id \in DOMAIN d.wp_posts :
    id = attachmentId /\ d.wp_posts[id].post_type = "attachment"

(***************************************************************************)
(* Slugs (lib/validation/slug.ts).  `${desiredSlug}-${suffix}` is the      *)
(* desired slug with the suffix appended as one more part.                 *)
(***************************************************************************)

RECURSIVE SlugLoop(_, _, _, _, _, _, _)
SlugLoop(d, desiredSlug, slug, suffix, postId, postType, postParent) ==
  IF checkSlugExists(d, slug, postType, postId, postParent)
    THEN SlugLoop(d, desiredSlug, Append(desiredSlug, suffix), suffix + 1,
                  postId, postType, postParent)
    ELSE slug

uniquePostSlug(d, desiredSlug, postId, postStatus, postType, postParent) ==
  SlugLoop(d, desiredSlug, desiredSlug, 2, postId, postType, postParent)

(***************************************************************************)
(* Response builder (lib/services/post-response.service.ts).               *)
(***************************************************************************)

\* String(n) and parseInt(s, 10); NaN is -1.
String(n) == ToString(n)

parseInt(s) ==
  IF \E n \in 0..99 : ToString(n) = s
    THEN CHOOSE n \in 0..99 : ToString(n) = s
    ELSE -1

prepareDateGmt(dateGmt, dateLocal, gmtOffset) ==
  IF dateGmt = ZeroDate
    THEN IF dateLocal = ZeroDate THEN <<"null">>
         ELSE <<"rfc3339", (dateLocal - tz) - gmtOffset>>
    ELSE mysqlToRfc3339(dateGmt)

getPostFormat(d, postId) ==
  LET terms == getObjectTerms(d, postId, "post_format") IN
  IF terms # {}
    THEN LET slug == wp_terms[Min(terms)].slug IN
         IF slug[1] = "post-format-" THEN slug[2] ELSE slug[1]
    ELSE "standard"

\* The day part (YYYY/MM/DD) of a stored datetime.
DayOf(datetime) == datetime \div 24

buildPermalink(siteUrl, post) ==
  IF post.post_status = "publish" /\ post.post_name # <<>>
    THEN [base |-> siteUrl, day |-> DayOf(post.post_date),
          name |-> post.post_name, p |-> 0]
    ELSE [base |-> siteUrl, day |-> 0, name |-> <<>>, p |-> post.ID]

buildPermalinkTemplate(siteUrl, post) ==
  [base |-> siteUrl, day |-> DayOf(post.post_date), name |-> <<"%postname%">>]

BlockContents == {"<!-- wp:paragraph -->"}

countBlockVersion(content) == IF content \in BlockContents THEN 1 ELSE 0

orEmpty(v) == IF v = <<"null">> THEN <<"">> ELSE v

buildPostResponse(d, post, context, siteUrl, gmtOffset) ==
  LET thumbnailId == getPostMeta(d, post.ID, "_thumbnail_id")
      templateMeta == getPostMeta(d, post.ID, "_wp_page_template")
      allMeta == getAllPostMeta(d, post.ID)
      isProtected == post.post_password # ""
  IN [id |-> post.ID,
      date |-> mysqlToRfc3339(post.post_date),
      date_gmt |-> prepareDateGmt(post.post_date_gmt, post.post_date, gmtOffset),
      guid |-> [rendered |-> post.guid, raw |-> post.guid],
      modified |-> orEmpty(mysqlToRfc3339(post.post_modified)),
      modified_gmt |->
        orEmpty(prepareDateGmt(post.post_modified_gmt, post.post_modified,
                               gmtOffset)),
      slug |-> post.post_name,
      status |-> post.post_status,
      type |-> post.post_type,
      link |-> buildPermalink(siteUrl, post),
      title |-> [raw |-> post.post_title, rendered |-> post.post_title],
      content |-> [raw |-> post.post_content,
                   rendered |-> IF isProtected THEN "" ELSE post.post_content,
                   protected |-> isProtected,
                   block_version |-> countBlockVersion(post.post_content)],
      excerpt |-> [raw |-> post.post_excerpt,
                   rendered |-> IF isProtected THEN "" ELSE post.post_excerpt,
                   protected |-> isProtected],
      author |-> post.post_author,
      featured_media |->
        IF thumbnailId = <<"null">> \/ thumbnailId = <<"value", "">> THEN 0
        ELSE parseInt(thumbnailId[2]),
      comment_status |-> post.comment_status,
      ping_status |-> post.ping_status,
      sticky |-> isSticky(d, post.ID),
      template |-> IF templateMeta = <<"null">> THEN "" ELSE templateMeta[2],
      format |-> getPostFormat(d, post.ID),
      meta |-> [k \in {x \in DOMAIN allMeta : ~startsWithUnderscore(x)} |->
                  allMeta[k]],
      categories |-> getObjectTerms(d, post.ID, "category"),
      tags |-> getObjectTerms(d, post.ID, "post_tag"),
      password |-> IF context = "edit" THEN post.post_password ELSE "",
      permalink_template |->
        IF context = "edit" THEN buildPermalinkTemplate(siteUrl, post)
        ELSE [base |-> "", day |-> 0, name |-> <<>>],
      generated_slug |-> IF context = "edit" THEN post.post_name ELSE <<>>]

(***************************************************************************)
(* The update service (lib/services/post-update.service.ts).               *)
(***************************************************************************)

NoError == [status |-> 200, code |-> "ok", body |-> NoBody]

\* body.sticky is present and true.
BodySticky(body) == Has(body, "sticky") /\ body.sticky

checkAssignTermsPermission(d, body, user) ==
  IF /\ Has(body, "categories") /\ Len(body.categories) > 0
     /\ "assign_categories" \notin user.allcaps
     /\ "manage_categories" \notin user.allcaps
     /\ "edit_posts" \notin user.allcaps
    THEN FALSE
  ELSE IF /\ Has(body, "tags") /\ Len(body.tags) > 0
          /\ "assign_post_tags" \notin user.allcaps
          /\ "manage_post_tags" \notin user.allcaps
          /\ "edit_posts" \notin user.allcaps
    THEN FALSE
  ELSE TRUE

\* Mutant of checkPermissions: the edit capability on the item is not asked.
checkPermissions_NoEditCheck(d, post, body, user) ==
  IF /\ Has(body, "author") /\ body.author # user.id
     /\ "edit_others_posts" \notin user.allcaps
    THEN WpError("rest_cannot_edit_others", 403)
  ELSE IF /\ BodySticky(body)
          /\ "edit_others_posts" \notin user.allcaps
          /\ "publish_posts" \notin user.allcaps
    THEN WpError("rest_cannot_assign_sticky", 403)
  ELSE IF ~checkAssignTermsPermission(d, body, user)
    THEN WpError("rest_cannot_assign_term", 403)
  ELSE NoError

\* Mutant of checkPermissions: the sticky check runs before the author check.
checkPermissions_StickyFirst(d, post, body, user) ==
  IF ~checkUpdatePermission(user, post)
    THEN WpError("rest_cannot_edit", 403)
  ELSE IF /\ BodySticky(body)
          /\ "edit_others_posts" \notin user.allcaps
          /\ "publish_posts" \notin user.allcaps
    THEN WpError("rest_cannot_assign_sticky", 403)
  ELSE IF /\ Has(body, "author") /\ body.author # user.id
          /\ "edit_others_posts" \notin user.allcaps
    THEN WpError("rest_cannot_edit_others", 403)
  ELSE IF ~checkAssignTermsPermission(d, body, user)
    THEN WpError("rest_cannot_assign_term", 403)
  ELSE NoError

checkPermissions(d, post, body, user) ==
  IF ~checkUpdatePermission(user, post)
    THEN WpError("rest_cannot_edit", 403)
  ELSE IF /\ Has(body, "author") /\ body.author # user.id
          /\ "edit_others_posts" \notin user.allcaps
    THEN WpError("rest_cannot_edit_others", 403)
  ELSE IF /\ BodySticky(body)
          /\ "edit_others_posts" \notin user.allcaps
          /\ "publish_posts" \notin user.allcaps
    THEN WpError("rest_cannot_assign_sticky", 403)
  ELSE IF ~checkAssignTermsPermission(d, body, user)
    THEN WpError("rest_cannot_assign_term", 403)
  ELSE NoError

\* The status step of prepareItemForDatabase: an error, or the value for
\* post_status ("" when the column is not set).
PrepareStatus(body, existingPost, user) ==
  IF Has(body, "status") /\ body.status # existingPost.post_status
    THEN validateAndNormalizeStatus(body.status, user)
    ELSE [code |-> "ok", value |-> ""]

\* Mutant of PrepareDates: a null date sets no column.
PrepareDates_NullIgnored(d, body) ==
  LET gmtOffset == getOption(d, "gmt_offset") IN
  IF Has(body, "date")
    THEN IF body.date = <<"null">> THEN <<>>
         ELSE restGetDateWithGmt(body.date, FALSE, gmtOffset)
  ELSE IF Has(body, "date_gmt")
    THEN IF body.date_gmt = <<"null">> THEN <<>>
         ELSE restGetDateWithGmt(body.date_gmt, TRUE, gmtOffset)
  ELSE <<>>

\* The date step: <<post_date, post_date_gmt>>, or <<>> when neither is set.
PrepareDates(d, body) ==
  LET gmtOffset == getOption(d, "gmt_offset") IN
  IF Has(body, "date")
    THEN IF body.date = <<"null">> THEN <<ZeroDate, ZeroDate>>
         ELSE restGetDateWithGmt(body.date, FALSE, gmtOffset)
  ELSE IF Has(body, "date_gmt")
    THEN IF body.date_gmt = <<"null">> THEN <<ZeroDate, ZeroDate>>
         ELSE restGetDateWithGmt(body.date_gmt, TRUE, gmtOffset)
  ELSE <<>>

\* Mutant of PrepareAuthor: the target account is not looked up.
PrepareAuthor_NoLookup(body, user) == NoError

\* The author step: the target account must exist unless it is the principal.
PrepareAuthor(body, user) ==
  IF Has(body, "author") /\ body.author # user.id /\ ~userExists(body.author)
    THEN WpError("rest_invalid_author", 400)
    ELSE NoError

\* Mutant of PreparePassword: the sticky flag of the patch is not looked at.
PreparePassword_IgnoresBodySticky(d, body, existingPost) ==
  IF Has(body, "password") /\ body.password # "" /\ isSticky(d, existingPost.ID)
    THEN WpError("rest_invalid_field", 400)
    ELSE NoError

\* The password step: a non-empty password with sticky requested, or on a
\* currently sticky item, is a conflict.
PreparePassword(d, body, existingPost) ==
  IF Has(body, "password") /\ body.password # ""
    THEN IF BodySticky(body) THEN WpError("rest_invalid_field", 400)
         ELSE IF isSticky(d, existingPost.ID)
           THEN WpError("rest_invalid_field", 400)
           ELSE NoError
    ELSE NoError

\* Mutant of PrepareSticky: the stored password is not looked at.
PrepareSticky_NoCheck(body, existingPost) == NoError

\* The sticky step: sticky requested on an item that has a password.
PrepareSticky(body, existingPost) ==
  IF BodySticky(body) /\ existingPost.post_password # ""
    THEN WpError("rest_invalid_field", 400)
    ELSE NoError

\* The parent step: 0, or an existing item.
PrepareParent(d, body) ==
  IF Has(body, "parent") /\ body.parent # 0 /\ ~PostExists(d, body.parent)
    THEN WpError("rest_post_invalid_id", 400)
    ELSE NoError

\* The column set assembled when no step fails.
PrepareData(d, body, existingPost, user) ==
  LET dates == PrepareDates(d, body)
      status == PrepareStatus(body, existingPost, user)
  IN
  (IF Has(body, "title")
     THEN [post_title |-> extractRawValue(body.title)] ELSE <<>>) @@
  (IF Has(body, "content")
     THEN [post_content |-> extractRawValue(body.content)] ELSE <<>>) @@
  (IF Has(body, "excerpt")
     THEN [post_excerpt |-> extractRawValue(body.excerpt)] ELSE <<>>) @@
  (IF Has(body, "status") /\ body.status # existingPost.post_status
     THEN [post_status |-> status.value] ELSE <<>>) @@
  (IF dates # <<>>
     THEN [post_date |-> dates[1], post_date_gmt |-> dates[2]] ELSE <<>>) @@
  (IF Has(body, "slug") THEN [post_name |-> body.slug] ELSE <<>>) @@
  (IF Has(body, "author") THEN [post_author |-> body.author] ELSE <<>>) @@
  (IF Has(body, "password")
     THEN [post_password |-> body.password] ELSE <<>>) @@
  (IF Has(body, "parent") THEN [post_parent |-> body.parent] ELSE <<>>) @@
  (IF Has(body, "menu_order")
     THEN [menu_order |-> body.menu_order] ELSE <<>>) @@
  (IF Has(body, "comment_status")
     THEN [comment_status |-> body.comment_status] ELSE <<>>) @@
  (IF Has(body, "ping_status")
     THEN [ping_status |-> body.ping_status] ELSE <<>>)

prepareItemForDatabase(d, body, existingPost, user) ==
  IF isWpError(PrepareStatus(body, existingPost, user))
    THEN PrepareStatus(body, existingPost, user)
  ELSE IF isWpError(PrepareAuthor(body, user))
    THEN PrepareAuthor(body, user)
  ELSE IF isWpError(PreparePassword(d, body, existingPost))
    THEN PreparePassword(d, body, existingPost)
  ELSE IF isWpError(PrepareSticky(body, existingPost))
    THEN PrepareSticky(body, existingPost)
  ELSE IF isWpError(PrepareParent(d, body))
    THEN PrepareParent(d, body)
  ELSE [code |-> "ok", data |-> PrepareData(d, body, existingPost, user)]

\* Step 5 of handlePostUpdate: the slug of a draft or pending item is made
\* unique as though the item were published.
ApplyUniqueSlug(d, updateData, postId, existingPost) ==
  LET effectiveStatus ==
        IF "post_status" \in DOMAIN updateData /\ updateData.post_status # ""
          THEN updateData.post_status ELSE existingPost.post_status
      parent ==
        IF "post_parent" \in DOMAIN updateData
          THEN updateData.post_parent ELSE existingPost.post_parent
  IN IF /\ "post_name" \in DOMAIN updateData
        /\ updateData.post_name # <<>>
        /\ effectiveStatus \in {"draft", "pending"}
       THEN [updateData EXCEPT
               !.post_name = uniquePostSlug(d, updateData.post_name, postId,
                                            "publish", existingPost.post_type,
                                            parent)]
       ELSE updateData

\* Mutant of handlePostFormat: a format without term clears the assignment.
handlePostFormat_MissingTermClears(d, postId, format) ==
  IF format = "standard" \/ format = ""
    THEN setObjectTerms(d, postId, <<>>, "post_format")
    ELSE LET termId == getPostFormatTermId(d, format) IN
         setObjectTerms(d, postId, IF termId # 0 THEN <<termId>> ELSE <<>>,
                        "post_format")

handlePostFormat(d, postId, format) ==
  IF format = "standard" \/ format = ""
    THEN setObjectTerms(d, postId, <<>>, "post_format")
    ELSE LET termId == getPostFormatTermId(d, format) IN
         IF termId # 0 THEN setObjectTerms(d, postId, <<termId>>, "post_format")
         ELSE d

\* Returns the database and the result (NoError for true).
\* Mutant of handleFeaturedMedia: the id is not validated.
handleFeaturedMedia_NoValidation(d, featuredMedia, postId) ==
  IF featuredMedia > 0
    THEN [db |-> updatePostMeta(d, postId, "_thumbnail_id",
                                String(featuredMedia)),
          result |-> NoError]
    ELSE [db |-> deletePostMeta(d, postId, "_thumbnail_id"), result |-> NoError]

handleFeaturedMedia(d, featuredMedia, postId) ==
  IF featuredMedia > 0
    THEN IF ~isValidAttachment(d, featuredMedia)
           THEN [db |-> d, result |-> WpError("rest_invalid_featured_media", 400)]
           ELSE [db |-> updatePostMeta(d, postId, "_thumbnail_id",
                                       String(featuredMedia)),
                 result |-> NoError]
    ELSE [db |-> deletePostMeta(d, postId, "_thumbnail_id"), result |-> NoError]

RECURSIVE RemoveFirst(_, _)
RemoveFirst(s, x) ==
  IF s = <<>> THEN <<>>
  ELSE IF Head(s) = x THEN Tail(s)
  ELSE <<Head(s)>> \o RemoveFirst(Tail(s), x)

\* Mutant of handleStickyStatus: the id is added without looking for it.
handleStickyStatus_AlwaysAppend(d, postId, sticky) ==
  LET stickyPosts == getStickyPosts(d) IN
  IF sticky
    THEN setStickyPosts(d, Append(stickyPosts, postId))
    ELSE IF includes(stickyPosts, postId)
           THEN setStickyPosts(d, RemoveFirst(stickyPosts, postId))
           ELSE d

handleStickyStatus(d, postId, sticky) ==
  LET stickyPosts == getStickyPosts(d) IN
  IF sticky
    THEN IF ~includes(stickyPosts, postId)
           THEN setStickyPosts(d, Append(stickyPosts, postId))
           ELSE d
    ELSE IF includes(stickyPosts, postId)
           THEN setStickyPosts(d, RemoveFirst(stickyPosts, postId))
           ELSE d

handleTerms(d, postId, body) ==
  LET d1 == IF Has(body, "categories")
              THEN setObjectTerms(d, postId, body.categories, "category")
              ELSE d
  IN IF Has(body, "tags")
       THEN setObjectTerms(d1, postId, body.tags, "post_tag")
       ELSE d1

\* Step 7f: every entry whose value is not null is upserted as String(value);
\* meta is a sequence of <<key, value>> entries in the payload's key order,
\* a value being <<"null">>, <<"string", s>> or <<"number", n>>.
RECURSIVE handleMeta(_, _, _)
handleMeta(d, postId, entries) ==
  IF entries = <<>> THEN d
  ELSE LET key == Head(entries)[1]
           value == Head(entries)[2]
           d1 == IF value = <<"null">> THEN d
                 ELSE updatePostMeta(d, postId, key,
                        IF value[1] = "number" THEN String(value[2])
                        ELSE value[2])
       IN handleMeta(d1, postId, Tail(entries))

(***************************************************************************)
(* handlePostUpdate.  The outcome of the callback is the working database, *)
(* the value returned, and whether a database operation threw.  `fault`    *)
(* names the step whose database operation throws ("none": no fault).      *)
(***************************************************************************)

FaultPoints == {"none", "updatePost", "handleTerms"}

Returned(d, result) == [db |-> d, result |-> result, thrown |-> FALSE]

Thrown(d) == [db |-> d, result |-> NoError, thrown |-> TRUE]

\* Mutant of AfterFeaturedMedia: the response is built from the database as
\* it was before steps 7c-7f.
AfterFeaturedMedia_StaleResponse(d, postId, body, fault) ==
  LET d1 == IF Has(body, "sticky")
              THEN handleStickyStatus(d, postId, body.sticky) ELSE d
      d2 == IF Has(body, "template")
              THEN updatePostMeta(d1, postId, "_wp_page_template", body.template)
              ELSE d1
  IN IF fault = "handleTerms" THEN Thrown(d2)
     ELSE
       LET d3 == handleTerms(d2, postId, body)
           d4 == IF Has(body, "meta") THEN handleMeta(d3, postId, body.meta)
                 ELSE d3
       IN Returned(d4,
            [status |-> 200, code |-> "ok",
             body |-> buildPostResponse(d, getPostById(d, postId), "edit",
                                        getOption(d, "siteurl"),
                                        getOption(d, "gmt_offset"))])

\* Steps 7c-8: sticky, template, terms, meta, re-read and response.
AfterFeaturedMedia(d, postId, body, fault) ==
  LET d1 == IF Has(body, "sticky")
              THEN handleStickyStatus(d, postId, body.sticky) ELSE d
      d2 == IF Has(body, "template")
              THEN updatePostMeta(d1, postId, "_wp_page_template", body.template)
              ELSE d1
  IN IF fault = "handleTerms" THEN Thrown(d2)
     ELSE
       LET d3 == handleTerms(d2, postId, body)
           d4 == IF Has(body, "meta") THEN handleMeta(d3, postId, body.meta)
                 ELSE d3
       IN IF ~PostExists(d4, postId)
            THEN Returned(d4, WpError("rest_post_invalid_id", 500))
            ELSE Returned(d4,
                   [status |-> 200, code |-> "ok",
                    body |-> buildPostResponse(d4, getPostById(d4, postId),
                                               "edit",
                                               getOption(d4, "siteurl"),
                                               getOption(d4, "gmt_offset"))])

\* Steps 6-7b: the post row, the format, the featured media.
AfterPrepare(d, postId, body, existingPost, prepared, t, fault) ==
  LET updateData == ApplyUniqueSlug(d, prepared, postId, existingPost) IN
  IF fault = "updatePost" THEN Thrown(d)
  ELSE
    LET updated == updatePost(d, postId, updateData, t) IN
    IF ~updated.ok THEN Returned(updated.db, WpError("db_update_error", 500))
    ELSE
      LET d1 == IF Has(body, "format")
                  THEN handlePostFormat(updated.db, postId, body.format)
                  ELSE updated.db
          media == IF Has(body, "featured_media")
                     THEN handleFeaturedMedia(d1, body.featured_media, postId)
                     ELSE [db |-> d1, result |-> NoError]
      IN IF isWpError(media.result) THEN Returned(media.db, media.result)
         ELSE AfterFeaturedMedia(media.db, postId, body, fault)

handlePostUpdate(d, postId, body, user, t, fault) ==
  IF ~PostExists(d, postId)
    THEN Returned(d, WpError("rest_post_invalid_id", 404))
  ELSE
    LET existingPost == getPostById(d, postId) IN
    IF existingPost.post_type # "post"
      THEN Returned(d, WpError("rest_post_invalid_id", 404))
    ELSE IF isWpError(checkPermissions(d, existingPost, body, user))
      THEN Returned(d, checkPermissions(d, existingPost, body, user))
    ELSE
      LET prepareResult == prepareItemForDatabase(d, body, existingPost, user) IN
      IF isWpError(prepareResult) THEN Returned(d, prepareResult)
      ELSE AfterPrepare(d, postId, body, existingPost, prepareResult.data, t,
                        fault)

(***************************************************************************)
(* withTransaction (lib/db/connection) and the route handler.              *)
(***************************************************************************)

\* The committed database after the callback's outcome: commit when the
\* callback returned (a response or a WpError), rollback when it threw.
withTransaction(d, outcome) ==
  IF outcome.thrown
    THEN [db |-> d, result |-> outcome.result, thrown |-> TRUE]
    ELSE [db |-> outcome.db, result |-> outcome.result, thrown |-> FALSE]

\* Mutant of RouteCallback: the item is looked up before the credentials.
RouteCallback_LoadsFirst(d, req, t) ==
  LET user == authenticateRequest(req.header) IN
  IF ~PostExists(d, req.postId)
    THEN Returned(d, WpError("rest_post_invalid_id", 404))
  ELSE IF user = NoUser THEN Returned(d, WpError("rest_not_logged_in", 401))
  ELSE handlePostUpdate(d, req.postId, req.body, user, t, req.fault)

\* The callback the route runs in the transaction.
RouteCallback(d, req, t) ==
  LET user == authenticateRequest(req.header) IN
  IF user = NoUser THEN Returned(d, WpError("rest_not_logged_in", 401))
  ELSE handlePostUpdate(d, req.postId, req.body, user, t, req.fault)

\* handleUpdate: the committed database and the HTTP response.
handleUpdate(d, req, t) ==
  IF req.postId <= 0
    THEN [db |-> d, result |-> WpError("rest_post_invalid_id", 404)]
  ELSE IF ~postUpdateSchema(req.body)
    THEN [db |-> d, result |-> InvalidParam(schemaIssues(req.body)[1])]
  ELSE
    LET tx == withTransaction(d, RouteCallback(d, req, t)) IN
    IF tx.thrown
      THEN [db |-> tx.db, result |-> WpError("rest_internal_error", 500)]
      ELSE [db |-> tx.db, result |-> tx.result]

(***************************************************************************)
(* State machine.                                                          *)
(***************************************************************************)

PostRow(id, type, author, status, name, date, dateGmt) ==
  [ID |-> id, post_type |-> type, post_author |-> author,
   post_status |-> status, post_name |-> name,
   guid |-> ToString(id),
   post_title |-> "Title", post_content |-> "Body", post_excerpt |-> "Summary",
   post_password |-> "", post_date |-> date, post_date_gmt |-> dateGmt,
   post_modified |-> 1, post_modified_gmt |-> 1,
   post_parent |-> 0, menu_order |-> 0,
   comment_status |-> "open", ping_status |-> "open"]

\* A site with a published sticky post (1), two drafts (2, 3) and an
\* attachment (4); slugs are unique and no sticky item has a password.
InitDb ==
  [wp_posts |->
     1 :> PostRow(1, "post", 1, "publish", <<"a">>, 100, 98) @@
     2 :> PostRow(2, "post", 2, "draft", <<"b">>, 124, ZeroDate) @@
     3 :> PostRow(3, "post", 4, "draft", <<"c">>, 148, ZeroDate) @@
     4 :> PostRow(4, "attachment", 1, "inherit", <<"img">>, 100, 98),
   wp_postmeta |->
     <<[post_id |-> 1, meta_key |-> "_thumbnail_id", meta_value |-> "4"]>>,
   wp_term_taxonomy |->
     11 :> [term_id |-> 1, taxonomy |-> "category", count |-> 1] @@
     12 :> [term_id |-> 2, taxonomy |-> "category", count |-> 0] @@
     13 :> [term_id |-> 3, taxonomy |-> "post_tag", count |-> 0] @@
     14 :> [term_id |-> 4, taxonomy |-> "post_format", count |-> 0] @@
     15 :> [term_id |-> 5, taxonomy |-> "post_format", count |-> 0],
   wp_term_relationships |-> {<<1, 11>>},
   wp_options |->
     [sticky_posts |-> serialize(<<1>>), gmt_offset |-> 2,
      siteurl |-> "http://localhost"]]

Request(postId, header, body) ==
  [postId |-> postId, header |-> header, body |-> body,
   fault |-> "none", elapsed |-> 1]

NoRequest ==
  [postId |-> 0, header |-> NoHeader, body |-> <<>>, fault |-> "none",
   elapsed |-> 0]

\* Callers of withTransaction that may run at the same time.
Callers == {"a", "b"}

\* The pool's connections (connectionLimit).
PoolSize == 1

Connections == 1..PoolSize

\* No execution in progress, every connection in the pool.  pc is the
\* position of a caller in withTransaction, conn the connection it got from
\* getConnection (0: none), holder the caller a connection is lent to
\* (""  : in the pool), trail the operations of the caller's current
\* execution in order, runs the number of executions started.
IdlePool ==
  [pc |-> [p \in Callers |-> "idle"],
   conn |-> [p \in Callers |-> 0],
   holder |-> [c \in Connections |-> ""],
   trail |-> [p \in Callers |-> <<>>],
   runs |-> 0]

\* No request in progress.  pc is the handler's position, t the time of the
\* request, work the database as the request's connection sees it, data the
\* prepared columns, held whether a connection is held, trail the steps the
\* request has reached and wrote those that changed the database, in order.
IdleRun ==
  [pc |-> "idle", req |-> NoRequest, t |-> 0, user |-> NoUser,
   before |-> InitDb, work |-> InitDb, data |-> <<>>, result |-> NoError,
   held |-> FALSE, thrown |-> FALSE, trail |-> <<>>, wrote |-> <<>>]

\* No call of uniquePostSlug in progress.
IdleLoop ==
  [pc |-> "idle", desiredSlug |-> <<>>, slug |-> <<>>, suffix |-> 2,
   postId |-> 0, postType |-> "", postParent |-> 0, calls |-> 0]

\* No transaction in progress.  For each caller: pc is its position, view
\* the database as its consistent reads see it, work that view with its own
\* writes, columns the columns of the post row its UPDATE names, overlapped
\* whether another transaction was in progress while it ran, served the
\* number of requests it has sent.
IdleRace ==
  [c \in Callers |->
     [pc |-> "idle", req |-> NoRequest, t |-> 0, view |-> InitDb,
      work |-> InitDb, columns |-> {}, result |-> NoError,
      overlapped |-> FALSE, served |-> 0]]

Init ==
  /\ db = InitDb
  /\ now = 1
  /\ nreq = 0
  /\ last = [req |-> NoRequest, user |-> NoUser, before |-> InitDb,
             result |-> NoError]
  /\ pool = IdlePool
  /\ run = IdleRun
  /\ tz = 0
  /\ race = IdleRace
  /\ loop = IdleLoop

\* One request, arriving req.elapsed seconds after the previous one, handled
\* from start to finish.
Update(Reqs, max) ==
  /\ nreq < max
  /\ \E req \in Reqs :
       LET t == now + req.elapsed
           out == handleUpdate(db, req, t)
       IN /\ db' = out.db
          /\ now' = t
          /\ nreq' = nreq + 1
          /\ last' = [req |-> req, user |-> authenticateRequest(req.header),
                      before |-> db, result |-> out.result]
          /\ pool' = pool
          /\ run' = run
          /\ tz' = tz
          /\ race' = race
          /\ loop' = loop

(***************************************************************************)
(* Requests.                                                               *)
(***************************************************************************)

Ed  == Basic("ed", "pw-ed")
Con == Basic("con", "pw-con")
Rev == Basic("rev", "pw-rev")
Aut == Basic("aut", "pw-aut")
WrongSecret == Basic("ed", "pw-con")

TitleHello == [title |-> <<"string", "Hello">>]

\* Requests probing authentication, permissions, status transitions, the
\* sticky/password rule, errors after the post row is written, and slugs.
AccessRequests ==
  {Request(p, h, TitleHello) :
     p \in {1, 2, 9}, h \in {NoHeader, WrongSecret, Ed, Con, Rev, Aut}}
  \cup {Request(4, Ed, TitleHello), Request(0, Ed, TitleHello)}

StatusRequests ==
  {Request(2, h, [status |-> st]) :
     h \in {Ed, Con, Rev},
     st \in {"publish", "private", "future", "draft", "pending", "trash",
             "bogus-value"}}
  \cup {Request(3, Aut, [status |-> "publish"]),
        Request(1, Ed, [status |-> "draft"]),
        Request(1, Ed, [status |-> "trash"])}

StickyRequests ==
  {Request(p, Ed, b) :
     p \in {1, 2},
     b \in {[sticky |-> TRUE], [sticky |-> FALSE], [password |-> "pw"],
            [password |-> ""], [sticky |-> TRUE, password |-> "pw"],
            [sticky |-> TRUE, password |-> ""],
            [sticky |-> FALSE, password |-> "pw"]}}
  \cup {Request(2, Con, [sticky |-> TRUE, password |-> "pw"]),
        Request(2, Con, [password |-> "pw"]),
        Request(2, Rev, [sticky |-> TRUE, password |-> "pw",
                         status |-> "publish"]),
        Request(2, Ed, [sticky |-> TRUE, password |-> "pw", author |-> 9]),
        Request(2, Ed, [sticky |-> TRUE, parent |-> 9])}

LateErrorRequests ==
  {Request(2, Ed, b) :
     b \in {[title |-> <<"string", "Hello">>, featured_media |-> 3],
            [password |-> "pw", featured_media |-> 3],
            [format |-> "aside", featured_media |-> 3],
            [featured_media |-> 4],
            [sticky |-> TRUE, categories |-> <<2>>, featured_media |-> 3]}}
  \cup {[Request(2, Ed, b) EXCEPT !.fault = f] :
          b \in {[title |-> <<"string", "Hello">>, sticky |-> TRUE]},
          f \in {"updatePost", "handleTerms"}}

SlugRequests ==
  {Request(p, Ed, b) :
     p \in {2, 3},
     b \in {[slug |-> <<"a">>], [slug |-> <<"b">>],
            [slug |-> <<"a">>, status |-> "publish"],
            [slug |-> <<"a">>, parent |-> 1],
            [parent |-> 1]}}
  \cup {Request(1, Ed, [slug |-> <<"b">>]),
        Request(1, Ed, [slug |-> <<"a">>]),
        Request(2, Ed, [slug |-> <<>>])}

Requests ==
  AccessRequests \cup StatusRequests \cup StickyRequests
    \cup LateErrorRequests \cup SlugRequests

Next == Update(Requests, MaxRequests)

Spec == Init /\ [][Next]_vars

\* Number of requests handled in one behaviour of SpecFields.
MaxFieldRequests == 1

\* Patches of one recognized field, and a few of two.
FieldPatches ==
  {[title |-> <<"string", "Hello">>], [title |-> <<"object", "Hello">>],
   [content |-> <<"string", "<!-- wp:paragraph -->">>],
   [excerpt |-> <<"string", "Short">>],
   [status |-> "publish"], [status |-> "draft"], [status |-> "pending"],
   [status |-> "private"], [status |-> "trash"],
   [date |-> <<"iso", 200>>], [date |-> <<"null">>],
   [date |-> <<"text", "soon">>],
   [date_gmt |-> <<"iso", 200>>], [date_gmt |-> <<"null">>],
   [slug |-> <<"z">>], [slug |-> <<"a">>], [slug |-> <<"b">>],
   [author |-> 1], [author |-> 2],
   [password |-> "pw"], [password |-> ""],
   [featured_media |-> 4], [featured_media |-> 0],
   [sticky |-> TRUE], [sticky |-> FALSE],
   [template |-> "tpl"], [template |-> ""],
   [format |-> "aside"], [format |-> "standard"],
   [comment_status |-> "closed"], [ping_status |-> "closed"],
   [parent |-> 1], [parent |-> 0], [menu_order |-> 5],
   [categories |-> <<2>>], [categories |-> <<>>], [tags |-> <<3>>],
   [meta |-> <<<<"k", <<"string", "v">>>>>>],
   [meta |-> <<<<"k", <<"null">>>>>>],
   [meta |-> <<<<"n", <<"number", 7>>>>>>],
   [meta |-> <<<<"_thumbnail_id", <<"number", 4>>>>>>],
   [meta |-> <<<<"_wp_page_template", <<"string", "tpl">>>>>>],
   [title |-> <<"string", "Hello">>, status |-> "pending"],
   [date |-> <<"iso", 200>>, date_gmt |-> <<"iso", 300>>],
   [slug |-> <<"a">>, status |-> "publish"]}

\* The patches sent by the editor to a published and to a draft item, and
\* the title patch sent by a contributor to their own draft; a request
\* arrives in the second of the previous modification or one second later.
FieldRequests ==
  {[Request(p, Ed, b) EXCEPT !.elapsed = e] :
     p \in {1, 2}, b \in FieldPatches, e \in {0, 1}}
  \cup {[Request(2, Con, TitleHello) EXCEPT !.elapsed = e] : e \in {0, 1}}

NextFields == Update(FieldRequests, MaxFieldRequests)

SpecFields == Init /\ [][NextFields]_vars

\* Number of requests handled in one behaviour of SpecEffects.
MaxEffectRequests == 2

\* meta entries of a payload.
MetaThumbnail(v) == <<<<"_thumbnail_id", <<"number", v>>>>>>

\* Featured media: the attachment (4), a post that is no attachment (3), an
\* id of no item (9), removal (0), alone and with a meta entry for the key
\* the association is stored under; and by a principal who may not edit.
MediaRequests ==
  {Request(p, Ed, b) :
     p \in {1, 2},
     b \in {[featured_media |-> 4], [featured_media |-> 0],
            [featured_media |-> 3], [featured_media |-> 9],
            [featured_media |-> 4, meta |-> MetaThumbnail(9)],
            [featured_media |-> 0, meta |-> MetaThumbnail(4)]}}
  \cup {Request(1, Con, [featured_media |-> 4]),
        Request(2, Con, [featured_media |-> 3])}

\* Dates: null, a parsable value, and both date fields at once.
DateRequests ==
  {Request(p, Ed, b) :
     p \in {1, 2},
     b \in {[date |-> <<"null">>], [date_gmt |-> <<"null">>],
            [date |-> <<"null">>, date_gmt |-> <<"iso", 300>>],
            [date |-> <<"iso", 200>>, date_gmt |-> <<"null">>],
            [date |-> <<"iso", 200>>], [date_gmt |-> <<"iso", 200>>]}}

\* The sticky flag, set and cleared, on a sticky item and on others.
StickyRegistryRequests ==
  {Request(p, Ed, [sticky |-> b]) : p \in {1, 2, 3}, b \in BOOLEAN}

\* Term lists: existing ids, an id of no term (9), an id of another
\* taxonomy, the empty list, repeated ids, and a format.
TermRequests ==
  {Request(p, Ed, b) :
     p \in {1, 2},
     b \in {[categories |-> <<2>>], [categories |-> <<1, 2>>],
            [categories |-> <<1>>], [categories |-> <<>>],
            [categories |-> <<9>>], [categories |-> <<3>>],
            [categories |-> <<2, 2>>],
            [tags |-> <<3>>], [tags |-> <<>>], [tags |-> <<3, 1>>],
            [categories |-> <<2>>, tags |-> <<3>>],
            [format |-> "aside"]}}

\* Patches of many fields at once.
ResponseRequests ==
  {Request(p, Ed, b) :
     p \in {1, 2},
     b \in {[title |-> <<"object", "Hello">>,
             content |-> <<"string", "<!-- wp:paragraph -->">>,
             excerpt |-> <<"string", "Short">>, slug |-> <<"z">>,
             status |-> "pending", author |-> 2, password |-> "pw",
             date |-> <<"iso", 200>>, template |-> "tpl",
             format |-> "aside", featured_media |-> 4,
             categories |-> <<2>>, tags |-> <<3>>,
             meta |-> <<<<"k", <<"string", "v">>>>, <<"n", <<"number", 7>>>>,
                        <<"z", <<"null">>>>>>],
            [sticky |-> TRUE, format |-> "gallery", slug |-> <<"a">>,
             status |-> "private", date_gmt |-> <<"iso", 200>>,
             comment_status |-> "closed", ping_status |-> "closed"],
            [password |-> "", sticky |-> FALSE, template |-> "",
             format |-> "standard", featured_media |-> 0,
             title |-> <<"string", "">>]}}

EffectRequests ==
  MediaRequests \cup DateRequests \cup StickyRegistryRequests
    \cup TermRequests \cup ResponseRequests

NextEffects == Update(EffectRequests, MaxEffectRequests)

SpecEffects == Init /\ [][NextEffects]_vars

(***************************************************************************)
(* The route for a requester whose account resolves to a given capability  *)
(* set (a site with other role definitions), on a site where the drafts    *)
(* have another status.                                                    *)
(***************************************************************************)

\* Number of requests handled in one behaviour of SpecCaps.
MaxCapRequests == 1

\* The callback of the route once authenticateRequest has returned user.
RouteCallbackAs(d, req, t, user) ==
  IF user = NoUser THEN Returned(d, WpError("rest_not_logged_in", 401))
  ELSE handlePostUpdate(d, req.postId, req.body, user, t, req.fault)

\* handleUpdate for a request authenticated as user.
handleUpdateAs(d, req, t, user) ==
  IF req.postId <= 0
    THEN [db |-> d, result |-> WpError("rest_post_invalid_id", 404)]
  ELSE IF ~postUpdateSchema(req.body)
    THEN [db |-> d, result |-> InvalidParam(schemaIssues(req.body)[1])]
  ELSE
    LET done == withTransaction(d, RouteCallbackAs(d, req, t, user)) IN
    IF done.thrown
      THEN [db |-> done.db, result |-> WpError("rest_internal_error", 500)]
      ELSE [db |-> done.db, result |-> done.result]

\* Account 2 with the capabilities its roles resolve to.
Principal(allcaps) ==
  [id |-> 2, login |-> "con", roles |-> {"custom"}, allcaps |-> allcaps]

EditCaps ==
  {"edit_posts", "edit_others_posts", "edit_published_posts",
   "edit_private_posts"}

\* Every combination of the edit capabilities, and some combinations with
\* publish_posts and with the capabilities of the taxonomies.
Principals ==
  {Principal(caps) : caps \in SUBSET EditCaps}
  \cup {Principal(caps) :
          caps \in {{"publish_posts"}, {"publish_posts", "edit_posts"},
                    {"publish_posts", "edit_published_posts"},
                    {"assign_categories", "edit_published_posts"},
                    {"manage_post_tags", "edit_published_posts"}}}

\* The site with items 2 (owned by account 2) and 3 (owned by account 4) in
\* the given status.
SiteWithStatus(status) ==
  [InitDb EXCEPT !.wp_posts[2].post_status = status,
                 !.wp_posts[3].post_status = status]

InitCaps ==
  /\ db \in {SiteWithStatus(st) : st \in {"draft", "publish", "future", "private"}}
  /\ now = 1
  /\ nreq = 0
  /\ last = [req |-> NoRequest, user |-> NoUser, before |-> db,
             result |-> NoError]
  /\ pool = IdlePool
  /\ run = IdleRun
  /\ tz = 0
  /\ race = IdleRace
  /\ loop = IdleLoop

\* Patches that meet none, one or several of the permission checks.
PermissionPatches ==
  {TitleHello, [author |-> 1], [author |-> 2], [sticky |-> TRUE],
   [categories |-> <<2>>], [categories |-> <<>>], [tags |-> <<3>>],
   [author |-> 1, sticky |-> TRUE],
   [sticky |-> TRUE, categories |-> <<2>>],
   [author |-> 1, sticky |-> TRUE, tags |-> <<3>>]}

PermissionRequests ==
  {Request(p, NoHeader, b) : p \in {2, 3}, b \in PermissionPatches}

\* One request by an authenticated principal, handled from start to finish.
UpdateAs(Users, Reqs, max) ==
  /\ nreq < max
  /\ \E user \in Users, req \in Reqs :
       LET t == now + req.elapsed
           out == handleUpdateAs(db, req, t, user)
       IN /\ db' = out.db
          /\ now' = t
          /\ nreq' = nreq + 1
          /\ last' = [req |-> req, user |-> user, before |-> db,
                      result |-> out.result]
          /\ pool' = pool
          /\ run' = run
          /\ tz' = tz
          /\ race' = race
          /\ loop' = loop

NextCaps == UpdateAs(Principals, PermissionRequests, MaxCapRequests)

SpecCaps == InitCaps /\ [][NextCaps]_vars

(***************************************************************************)
(* Requests that differ in their Authorization header.                     *)
(***************************************************************************)

MaxAuthRequests == 2

Header(scheme, credentials) == [scheme |-> scheme, credentials |-> credentials]

\* Headers: absent or empty, another scheme, and Basic with credentials that
\* are well-formed, lack the colon or a part, carry whitespace or a second
\* colon, name no account or an account without stored hash, or match no hash.
AuthHeaders ==
  {NoHeader, Header("", <<>>),
   Header("basic", <<"ed", ":", "pw-ed">>),
   Header("Bearer", <<"ed", ":", "pw-ed">>)}
  \cup {Header("Basic", c) : c \in
         {<<>>, <<"ed">>, <<":">>, <<"ed", ":">>, <<":", "pw-ed">>,
          <<"ed", ":", " ">>, <<" ", ":", "pw-ed">>,
          <<"ed", ":", "pw-ed">>, <<"ed", ":", "pw", " ", "-ed">>,
          <<"ed", ":", " ", "pw-ed", " ">>,
          <<"ed", ":", "old", ":", "ed">>, <<"ed", ":", "old">>,
          <<"ed", ":", "pw-con">>, <<"con", ":", "pw-con">>,
          <<"e", " ", "d", ":", "pw-ed">>, <<"ed", " ", ":", "pw-ed">>,
          <<"zed", ":", "pw-ed">>, <<"new", ":", "pw-new">>,
          <<"ed", ":", "pw-ed", ":">>}}

AuthRequests ==
  {Request(p, h, b) :
     p \in {1, 2}, h \in AuthHeaders,
     b \in {TitleHello, [sticky |-> TRUE], [bogus |-> 1]}}
  \cup {Request(p, h, TitleHello) :
          p \in {4, 9},
          h \in {NoHeader, Header("Basic", <<"ed", ":", "old">>),
                 Header("Basic", <<"ed", ":", "pw-ed">>)}}

NextAuth == Update(AuthRequests, MaxAuthRequests)

SpecAuth == Init /\ [][NextAuth]_vars

(***************************************************************************)
(* handleUpdate, step by step: one request at a time, each await of the    *)
(* route and of handlePostUpdate an action.  A database operation may      *)
(* throw at any step that holds the connection.                            *)
(***************************************************************************)

MaxStepRequests == 1

\* Requests that end at each step of the handler: a bad id, bodies the
\* schema rejects, bad credentials, a missing item and an item of another
\* type, denials, failures of preparation, a failure after the post row is
\* written, and patches that succeed with none, one or all side effects.
StepRequests ==
  {Request(p, h, b) :
     p \in {0, 2, 9}, h \in {NoHeader, Ed},
     b \in {[bogus |-> 1], [status |-> "bogus-value", bogus |-> 1],
            [categories |-> <<2, 0>>, author |-> 0],
            [parent |-> 0 - 1, tags |-> <<0>>], [featured_media |-> 0 - 1],
            [format |-> "poem", ping_status |-> "maybe"],
            [comment_status |-> "maybe"], TitleHello}}
  \cup {Request(4, Ed, TitleHello), Request(1, Con, TitleHello),
        Request(9, Con, TitleHello), Request(4, Con, TitleHello)}
  \cup {Request(2, Con, b) :
          b \in {[status |-> "publish"], [sticky |-> TRUE],
                 [categories |-> <<2>>, author |-> 1]}}
  \cup {Request(2, Ed, b) :
          b \in {<<>>, [sticky |-> TRUE], [sticky |-> TRUE, password |-> "pw"],
                 [author |-> 9], [parent |-> 9], [author |-> 1],
                 [title |-> <<"string", "Hello">>, featured_media |-> 3],
                 [categories |-> <<2>>, tags |-> <<3>>],
                 [meta |-> <<<<"k", <<"string", "v">>>>>>],
                 [title |-> <<"string", "Hello">>, format |-> "aside",
                  featured_media |-> 4, sticky |-> TRUE, template |-> "tpl",
                  categories |-> <<2>>, tags |-> <<3>>,
                  meta |-> <<<<"k", <<"string", "v">>>>>>]}}

\* The item loaded in step 1.
ExistingPost == getPostById(run.before, run.req.postId)

\* The request reaches `step` and continues at pc.
Goto(step, pc) == [run EXCEPT !.pc = pc, !.trail = Append(@, step)]

\* The callback returns `result` at `step`, leaving the database as d.
Returns(step, result, d) ==
  [Goto(step, "commit") EXCEPT
     !.result = result, !.work = d,
     !.wrote = IF d = run.work THEN @ ELSE Append(@, step)]

\* `step` leaves the database as d and the callback continues at pc.
Writes(step, pc, d) ==
  [Goto(step, pc) EXCEPT
     !.work = d, !.wrote = IF d = run.work THEN @ ELSE Append(@, step)]

\* A request arrives.
Receive ==
  /\ run.pc \in {"idle", "done"}
  /\ nreq < MaxStepRequests
  /\ \E req \in StepRequests :
       /\ run' = [IdleRun EXCEPT !.pc = "validate", !.req = req,
                                 !.t = now + req.elapsed,
                                 !.before = db, !.work = db]
       /\ now' = now + req.elapsed
  /\ UNCHANGED <<db, nreq, last, pool, tz, race, loop>>

\* The id of the path and the body against the schema.
StepValidate ==
  /\ run.pc = "validate"
  /\ run' = IF run.req.postId <= 0
              THEN [Goto("validate", "respond") EXCEPT
                      !.result = WpError("rest_post_invalid_id", 404)]
            ELSE IF ~postUpdateSchema(run.req.body)
              THEN [Goto("validate", "respond") EXCEPT
                      !.result = InvalidParam(schemaIssues(run.req.body)[1])]
            ELSE Goto("validate", "getConnection")
  /\ UNCHANGED <<db, now, nreq, last, pool, tz, race, loop>>

\* withTransaction: getConnection, then beginTransaction.
StepOpen ==
  /\ run.pc \in {"getConnection", "beginTransaction"}
  /\ run' = IF run.pc = "getConnection"
              THEN [Goto("getConnection", "beginTransaction") EXCEPT
                      !.held = TRUE]
              ELSE Goto("beginTransaction", "authenticate")
  /\ UNCHANGED <<db, now, nreq, last, pool, tz, race, loop>>

StepAuthenticate ==
  /\ run.pc = "authenticate"
  /\ LET user == authenticateRequest(run.req.header) IN
     run' = IF user = NoUser
              THEN Returns("authenticate", WpError("rest_not_logged_in", 401),
                           run.work)
              ELSE [Goto("authenticate", "load") EXCEPT !.user = user]
  /\ UNCHANGED <<db, now, nreq, last, pool, tz, race, loop>>

\* Mutant of StepLoad: the type of the item is not looked at.
StepLoad_AnyType ==
  /\ run.pc = "load"
  /\ run' = IF ~PostExists(run.work, run.req.postId)
              THEN Returns("load", WpError("rest_post_invalid_id", 404),
                           run.work)
              ELSE Goto("load", "authorize")
  /\ UNCHANGED <<db, now, nreq, last, pool, tz, race, loop>>

\* Step 1 of handlePostUpdate.
StepLoad ==
  /\ run.pc = "load"
  /\ run' = IF ~PostExists(run.work, run.req.postId)
              THEN Returns("load", WpError("rest_post_invalid_id", 404),
                           run.work)
            ELSE IF getPostById(run.work, run.req.postId).post_type # "post"
              THEN Returns("load", WpError("rest_post_invalid_id", 404),
                           run.work)
            ELSE Goto("load", "authorize")
  /\ UNCHANGED <<db, now, nreq, last, pool, tz, race, loop>>

\* Mutant of StepAuthorize: a denial is noted and the callback goes on.
StepAuthorize_DenialContinues ==
  /\ run.pc = "authorize"
  /\ run' = [Goto("authorize", "prepare") EXCEPT
               !.result = checkPermissions(run.work, ExistingPost,
                                           run.req.body, run.user)]
  /\ UNCHANGED <<db, now, nreq, last, pool, tz, race, loop>>

\* Step 2.
StepAuthorize ==
  /\ run.pc = "authorize"
  /\ LET permError == checkPermissions(run.work, ExistingPost, run.req.body,
                                       run.user)
     IN run' = IF isWpError(permError)
                 THEN Returns("authorize", permError, run.work)
                 ELSE Goto("authorize", "prepare")
  /\ UNCHANGED <<db, now, nreq, last, pool, tz, race, loop>>

\* Mutant of StepPrepare: the modification timestamps are written before
\* the outcome of the preparation is looked at.
StepPrepare_TouchesFirst ==
  /\ run.pc = "prepare"
  /\ LET prepareResult == prepareItemForDatabase(run.work, run.req.body,
                                                 ExistingPost, run.user)
         touched == updatePost(run.work, run.req.postId, <<>>, run.t).db
     IN run' = IF isWpError(prepareResult)
                 THEN Returns("prepare", prepareResult, touched)
                 ELSE [Goto("prepare", "persist") EXCEPT
                         !.data = ApplyUniqueSlug(run.work, prepareResult.data,
                                                  run.req.postId, ExistingPost)]
  /\ UNCHANGED <<db, now, nreq, last, pool, tz, race, loop>>

\* Steps 4 and 5.
StepPrepare ==
  /\ run.pc = "prepare"
  /\ LET prepareResult == prepareItemForDatabase(run.work, run.req.body,
                                                 ExistingPost, run.user)
     IN run' = IF isWpError(prepareResult)
                 THEN Returns("prepare", prepareResult, run.work)
                 ELSE [Goto("prepare", "persist") EXCEPT
                         !.data = ApplyUniqueSlug(run.work, prepareResult.data,
                                                  run.req.postId, ExistingPost)]
  /\ UNCHANGED <<db, now, nreq, last, pool, tz, race, loop>>

\* Mutant of StepPersist: the number of affected rows is not looked at.
StepPersist_IgnoresAffectedRows ==
  /\ run.pc = "persist"
  /\ run' = Writes("persist", "format",
                   updatePost(run.work, run.req.postId, run.data, run.t).db)
  /\ UNCHANGED <<db, now, nreq, last, pool, tz, race, loop>>

\* Step 6.
StepPersist ==
  /\ run.pc = "persist"
  /\ LET updated == updatePost(run.work, run.req.postId, run.data, run.t) IN
     run' = IF ~updated.ok
              THEN Returns("persist", WpError("db_update_error", 500),
                           updated.db)
              ELSE Writes("persist", "format", updated.db)
  /\ UNCHANGED <<db, now, nreq, last, pool, tz, race, loop>>

\* Steps 7a-7f, one at a time.
StepSideEffect ==
  /\ run.pc \in {"format", "featured_media", "sticky", "template", "terms",
                 "meta"}
  /\ LET body == run.req.body
         postId == run.req.postId
         media == IF Has(body, "featured_media")
                    THEN handleFeaturedMedia(run.work, body.featured_media,
                                             postId)
                    ELSE [db |-> run.work, result |-> NoError]
     IN run' =
          CASE run.pc = "format" ->
                 Writes("format", "featured_media",
                        IF Has(body, "format")
                          THEN handlePostFormat(run.work, postId, body.format)
                          ELSE run.work)
            [] run.pc = "featured_media" ->
                 IF isWpError(media.result)
                   THEN Returns("featured_media", media.result, media.db)
                   ELSE Writes("featured_media", "sticky", media.db)
            [] run.pc = "sticky" ->
                 Writes("sticky", "template",
                        IF Has(body, "sticky")
                          THEN handleStickyStatus(run.work, postId, body.sticky)
                          ELSE run.work)
            [] run.pc = "template" ->
                 Writes("template", "terms",
                        IF Has(body, "template")
                          THEN updatePostMeta(run.work, postId,
                                              "_wp_page_template", body.template)
                          ELSE run.work)
            [] run.pc = "terms" ->
                 Writes("terms", "meta", handleTerms(run.work, postId, body))
            [] run.pc = "meta" ->
                 Writes("meta", "reread",
                        IF Has(body, "meta")
                          THEN handleMeta(run.work, postId, body.meta)
                          ELSE run.work)
  /\ UNCHANGED <<db, now, nreq, last, pool, tz, race, loop>>

\* Step 8.
StepReread ==
  /\ run.pc = "reread"
  /\ run' = IF ~PostExists(run.work, run.req.postId)
              THEN Returns("reread", WpError("rest_post_invalid_id", 500),
                           run.work)
              ELSE Returns("reread",
                     [status |-> 200, code |-> "ok",
                      body |-> buildPostResponse(
                                 run.work,
                                 getPostById(run.work, run.req.postId), "edit",
                                 getOption(run.work, "siteurl"),
                                 getOption(run.work, "gmt_offset"))],
                     run.work)
  /\ UNCHANGED <<db, now, nreq, last, pool, tz, race, loop>>

\* A database operation throws: getConnection outside the try of
\* withTransaction, any later operation inside it.
StepFault ==
  /\ run.pc \in {"getConnection", "beginTransaction", "authenticate", "load",
                 "authorize", "prepare", "persist", "format",
                 "featured_media", "sticky", "template", "terms", "meta",
                 "reread", "commit"}
  /\ run' = [Goto("fault", IF run.pc = "getConnection" THEN "respond"
                           ELSE "rollback") EXCEPT
               !.thrown = TRUE,
               !.result = WpError("rest_internal_error", 500)]
  /\ UNCHANGED <<db, now, nreq, last, pool, tz, race, loop>>

\* Mutant of StepClose: what the connection wrote is kept after a throw.
StepClose_KeepsWritesOnThrow ==
  /\ run.pc \in {"commit", "rollback", "release"}
  /\ db' = IF run.pc \in {"commit", "rollback"} THEN run.work ELSE db
  /\ run' = CASE run.pc = "commit" -> Goto("commit", "release")
              [] run.pc = "rollback" -> Goto("rollback", "release")
              [] run.pc = "release" ->
                   [Goto("release", "respond") EXCEPT !.held = FALSE]
  /\ UNCHANGED <<now, nreq, last, pool, tz, race, loop>>

\* withTransaction: commit after the callback returned, rollback after a
\* throw, release in either case.
StepClose ==
  /\ run.pc \in {"commit", "rollback", "release"}
  /\ db' = IF run.pc = "commit" THEN run.work ELSE db
  /\ run' = CASE run.pc = "commit" -> Goto("commit", "release")
              [] run.pc = "rollback" ->
                   [Goto("rollback", "release") EXCEPT !.work = db]
              [] run.pc = "release" ->
                   [Goto("release", "respond") EXCEPT !.held = FALSE]
  /\ UNCHANGED <<now, nreq, last, pool, tz, race, loop>>

\* The response leaves the handler.
StepRespond ==
  /\ run.pc = "respond"
  /\ run' = Goto("respond", "done")
  /\ last' = [req |-> run.req, user |-> authenticateRequest(run.req.header),
              before |-> run.before, result |-> run.result]
  /\ nreq' = nreq + 1
  /\ UNCHANGED <<db, now, pool, tz, race, loop>>

NextSteps ==
  \/ Receive \/ StepValidate \/ StepOpen \/ StepAuthenticate \/ StepLoad
  \/ StepAuthorize \/ StepPrepare \/ StepPersist \/ StepSideEffect
  \/ StepReread \/ StepFault \/ StepClose \/ StepRespond

SpecSteps == Init /\ [][NextSteps]_vars

(***************************************************************************)
(* The step-by-step handler next to another client of the database that    *)
(* deletes the item after the request has loaded it and before it updates  *)
(* it.                                                                     *)
(***************************************************************************)

\* The rows of wp_posts without the row of id.
WithoutPost(d, id) ==
  [d EXCEPT !.wp_posts = [i \in DOMAIN d.wp_posts \ {id} |-> d.wp_posts[i]]]

\* Another client deletes the item and commits; the UPDATE of step 6 reads
\* the committed rows.
DeletedElsewhere ==
  /\ run.pc = "persist"
  /\ PostExists(run.work, run.req.postId)
  /\ db' = WithoutPost(db, run.req.postId)
  /\ run' = [run EXCEPT !.work = WithoutPost(run.work, run.req.postId)]
  /\ UNCHANGED <<now, nreq, last, pool, tz, race, loop>>

NextShared == NextSteps \/ DeletedElsewhere

SpecShared == Init /\ [][NextShared]_vars

(***************************************************************************)
(* Dates under every site offset and process time zone.                    *)
(***************************************************************************)

MaxDateRequests == 1

\* Hours east of UTC of the process running the handler (the TZ of the
\* host), and values of the gmt_offset option.
ProcessZones == {0, 1}

SiteOffsets == {0, 2, -3}

\* The date fields alone, together, null, unparsable and with a zone
\* designator.
DatePatches ==
  {[date |-> <<"iso", 200>>], [date |-> <<"iso", 205>>],
   [date_gmt |-> <<"iso", 200>>], [date_gmt |-> <<"iso", 198>>],
   [date_gmt |-> <<"iso", 203>>],
   [date |-> <<"iso", 200>>, date_gmt |-> <<"iso", 300>>],
   [date |-> <<"null">>, date_gmt |-> <<"iso", 300>>],
   [date |-> <<"text", "soon">>, date_gmt |-> <<"iso", 300>>],
   [date |-> <<"text", "soon">>], [date_gmt |-> <<"text", "">>],
   [date |-> <<"text", "soon">>, title |-> <<"string", "Hello">>],
   [date |-> <<"isoz", 200, 0>>], [date_gmt |-> <<"isoz", 200, 0>>],
   [date_gmt |-> <<"null">>], TitleHello}

DateFieldRequests == {Request(p, Ed, b) : p \in {1, 2}, b \in DatePatches}

InitDates ==
  /\ tz \in ProcessZones
  /\ race = IdleRace
  /\ loop = IdleLoop
  /\ \E o \in SiteOffsets :
       db = [InitDb EXCEPT !.wp_options.gmt_offset = o]
  /\ now = 1
  /\ nreq = 0
  /\ last = [req |-> NoRequest, user |-> NoUser, before |-> db,
             result |-> NoError]
  /\ pool = IdlePool
  /\ run = IdleRun

NextDates == Update(DateFieldRequests, MaxDateRequests)

SpecDates == InitDates /\ [][NextDates]_vars

(***************************************************************************)
(* Requests that change the author.                                        *)
(***************************************************************************)

MaxAuthorRequests == 1

\* The author field naming the principal, another account, an account
\* without posts, and no account; alone and with fields that are rejected
\* before the author step, after it, and after the post row is written.
AuthorPatches ==
  {[author |-> 1], [author |-> 2], [author |-> 4], [author |-> 5],
   [author |-> 9],
   [author |-> 9, status |-> "publish"],
   [author |-> 9, sticky |-> TRUE, password |-> "pw"],
   [author |-> 5, sticky |-> TRUE, password |-> "pw"],
   [author |-> 5, featured_media |-> 3],
   [author |-> 5, title |-> <<"string", "Hello">>],
   [author |-> 4, status |-> "pending"], [author |-> 1, sticky |-> TRUE]}

AuthorRequests ==
  {Request(p, h, b) : p \in {1, 2, 3}, h \in {Ed, Con, Aut}, b \in AuthorPatches}

NextAuthor == Update(AuthorRequests, MaxAuthorRequests)

SpecAuthor == Init /\ [][NextAuthor]_vars

(***************************************************************************)
(* Requests that set the post format.                                      *)
(***************************************************************************)

MaxFormatRequests == 2

\* 'standard', two formats whose term exists, one whose term does not; alone,
\* with another field, and with a featured media that is rejected after the
\* format is set.
FormatPatches ==
  {[format |-> "standard"], [format |-> "aside"], [format |-> "gallery"],
   [format |-> "quote"],
   [format |-> "gallery", title |-> <<"string", "Hello">>],
   [format |-> "standard", title |-> <<"string", "Hello">>],
   [format |-> "quote", featured_media |-> 3]}

FormatRequests == {Request(p, Ed, b) : p \in {1, 2}, b \in FormatPatches}

NextFormat == Update(FormatRequests, MaxFormatRequests)

SpecFormat == Init /\ [][NextFormat]_vars

(***************************************************************************)
(* Requests that write metadata, on a site with duplicate keys.            *)
(***************************************************************************)

MaxMetaRequests == 2

\* The site with two rows of key "k" for item 2 and one row of key "j" for
\* item 1.
MetaDb ==
  [InitDb EXCEPT !.wp_postmeta =
     @ \o <<[post_id |-> 2, meta_key |-> "k", meta_value |-> "x"],
            [post_id |-> 1, meta_key |-> "j", meta_value |-> "z"],
            [post_id |-> 2, meta_key |-> "k", meta_value |-> "y"]>>]

\* A key with rows, without rows, a null value, several entries, no entry,
\* and the keys other fields write.
MetaPatches ==
  {[meta |-> <<<<"k", <<"string", "v">>>>>>],
   [meta |-> <<<<"k", <<"null">>>>>>],
   [meta |-> <<<<"j", <<"number", 7>>>>>>],
   [meta |-> <<<<"k", <<"null">>>>, <<"j", <<"string", "w">>>>>>],
   [meta |-> <<<<"j", <<"null">>>>, <<"k", <<"number", 7>>>>>>],
   [meta |-> <<>>],
   [meta |-> <<<<"_thumbnail_id", <<"number", 4>>>>>>, featured_media |-> 0],
   [meta |-> <<<<"k", <<"string", "v">>>>>>, categories |-> <<9>>]}

MetaRequests == {Request(p, Ed, b) : p \in {1, 2}, b \in MetaPatches}

InitMeta ==
  /\ db = MetaDb
  /\ now = 1
  /\ nreq = 0
  /\ last = [req |-> NoRequest, user |-> NoUser, before |-> MetaDb,
             result |-> NoError]
  /\ pool = IdlePool
  /\ run = IdleRun
  /\ tz = 0
  /\ race = IdleRace
  /\ loop = IdleLoop

NextMeta == Update(MetaRequests, MaxMetaRequests)

SpecMeta == InitMeta /\ [][NextMeta]_vars

(***************************************************************************)
(* Requests handled at the same time, each in its own transaction on its   *)
(* own connection (connectionLimit > 1).  The transactions run at InnoDB's *)
(* default isolation level, REPEATABLE READ, which the code does not       *)
(* change: every SELECT of a transaction is a consistent read of the       *)
(* database as committed when the transaction's first SELECT ran, plus the *)
(* transaction's own writes; an UPDATE locks the row it writes until the   *)
(* transaction ends and sets the columns it names on the latest committed  *)
(* row.                                                                    *)
(***************************************************************************)

MaxRaceRequests == 1

\* Sticky, password and slug patches by the editor on the two drafts and the
\* published sticky item.
RaceRequests ==
  {Request(p, Ed, b) :
     p \in {1, 2, 3},
     b \in {[sticky |-> TRUE], [password |-> "pw"], [slug |-> <<"z">>]}}

\* The transaction of the other caller.
Other(c) == CHOOSE o \in Callers : o # c

InProgress(c) == race[c].pc # "idle"

\* The columns of the post row the UPDATE of step 6 names, {} when the
\* request does not reach it.
WrittenColumns(view, req) ==
  LET user == authenticateRequest(req.header) IN
  IF user = NoUser \/ ~PostExists(view, req.postId) THEN {}
  ELSE
    LET existingPost == getPostById(view, req.postId)
        prepareResult == prepareItemForDatabase(view, req.body, existingPost,
                                                user)
    IN IF \/ existingPost.post_type # "post"
          \/ isWpError(checkPermissions(view, existingPost, req.body, user))
          \/ isWpError(prepareResult)
         THEN {}
         ELSE (DOMAIN ApplyUniqueSlug(view, prepareResult.data, req.postId,
                                      existingPost)
                 \cap UpdatableColumns)
              \cup {"post_modified", "post_modified_gmt"}

\* The rows (for the metadata and term tables: the tables) a transaction
\* has written and keeps locked until it ends.
LockedBy(tx) ==
  (IF tx.columns = {} THEN {} ELSE {<<"wp_posts", tx.req.postId>>})
    \cup {<<"wp_options", name>> :
            name \in {n \in DOMAIN tx.view.wp_options :
                        tx.work.wp_options[n] # tx.view.wp_options[n]}}
    \cup {<<table, 0>> :
            table \in {x \in {"wp_postmeta", "wp_term_relationships",
                              "wp_term_taxonomy"} :
                         tx.work[x] # tx.view[x]}}

\* The committed database after the transaction's writes are committed.
Committed(d, tx) ==
  [wp_posts |->
     [id \in DOMAIN d.wp_posts |->
        IF id = tx.req.postId /\ tx.columns # {}
          THEN [col \in DOMAIN d.wp_posts[id] |->
                  IF col \in tx.columns THEN tx.work.wp_posts[id][col]
                  ELSE d.wp_posts[id][col]]
          ELSE d.wp_posts[id]],
   wp_options |->
     [name \in DOMAIN d.wp_options |->
        IF tx.work.wp_options[name] # tx.view.wp_options[name]
          THEN tx.work.wp_options[name] ELSE d.wp_options[name]],
   wp_postmeta |->
     IF tx.work.wp_postmeta # tx.view.wp_postmeta
       THEN tx.work.wp_postmeta ELSE d.wp_postmeta,
   wp_term_relationships |->
     IF tx.work.wp_term_relationships # tx.view.wp_term_relationships
       THEN tx.work.wp_term_relationships ELSE d.wp_term_relationships,
   wp_term_taxonomy |->
     IF tx.work.wp_term_taxonomy # tx.view.wp_term_taxonomy
       THEN tx.work.wp_term_taxonomy ELSE d.wp_term_taxonomy]

\* A request arrives, is validated, gets a connection and begins its
\* transaction; the first SELECT (authenticateRequest) fixes what its
\* consistent reads see.
RaceBegin(c) ==
  /\ race[c].pc = "idle"
  /\ race[c].served < MaxRaceRequests
  /\ \E req \in RaceRequests :
       /\ req.postId > 0 /\ postUpdateSchema(req.body)
       /\ race' =
            [x \in Callers |->
               IF x = c
                 THEN [race[c] EXCEPT
                         !.pc = "begun", !.req = req, !.t = now + req.elapsed,
                         !.view = db, !.work = db, !.columns = {},
                         !.result = NoError,
                         !.overlapped = InProgress(Other(c))]
                 ELSE [race[x] EXCEPT
                         !.overlapped = @ \/ InProgress(x)]]
       /\ now' = now + req.elapsed
  /\ UNCHANGED <<db, nreq, last, pool, run, tz, loop>>

\* The callback runs on the transaction's view.  It waits while a row it
\* writes is locked by the other transaction.
RaceExecute(c) ==
  /\ race[c].pc = "begun"
  /\ LET tx == race[c]
         outcome == RouteCallback(tx.view, tx.req, tx.t)
         done == [tx EXCEPT
                    !.pc = "executed",
                    !.work = IF outcome.thrown THEN tx.view ELSE outcome.db,
                    !.columns = IF outcome.thrown THEN {}
                                ELSE WrittenColumns(tx.view, tx.req),
                    !.result = IF outcome.thrown
                                 THEN WpError("rest_internal_error", 500)
                                 ELSE outcome.result]
     IN /\ \/ race[Other(c)].pc # "executed"
           \/ LockedBy(done) \cap LockedBy(race[Other(c)]) = {}
        /\ race' = [race EXCEPT ![c] = done]
  /\ UNCHANGED <<db, now, nreq, last, pool, run, tz, loop>>

\* conn.commit() (after a rollback work is the view and nothing changes),
\* release, and the response.
RaceCommit(c) ==
  /\ race[c].pc = "executed"
  /\ db' = Committed(db, race[c])
  /\ race' = [race EXCEPT ![c].pc = "idle", ![c].served = @ + 1]
  /\ nreq' = nreq + 1
  /\ UNCHANGED <<now, last, pool, run, tz, loop>>

NextRace == \E c \in Callers : RaceBegin(c) \/ RaceExecute(c) \/ RaceCommit(c)

SpecRace == Init /\ [][NextRace]_vars

(***************************************************************************)
(* uniquePostSlug, one evaluation of the loop condition at a time, on      *)
(* every small set of existing items.                                      *)
(***************************************************************************)

MaxSlugCalls == 1

\* Slugs of the existing items: a slug, its first two suffixed forms, and
\* another slug.
ExistingSlugs == {<<"z">>, <<"z", 2>>, <<"z", 3>>}

DesiredSlugs == {<<"z">>, <<"y">>}

\* The sites whose posts 1, 2 and 3 hold any of the existing slugs, post 3
\* under parent 0 or 1, and whose attachment holds a slug of the posts or
\* its own.
SlugDbs ==
  {[InitDb EXCEPT !.wp_posts[1].post_name = s1,
                  !.wp_posts[2].post_name = s2,
                  !.wp_posts[3].post_name = s3,
                  !.wp_posts[3].post_parent = parent,
                  !.wp_posts[4].post_name = s4] :
     s1 \in ExistingSlugs, s2 \in ExistingSlugs, s3 \in ExistingSlugs,
     parent \in {0, 1}, s4 \in {<<"z">>, <<"img">>}}

InitSlug ==
  /\ db \in SlugDbs
  /\ now = 1
  /\ nreq = 0
  /\ last = [req |-> NoRequest, user |-> NoUser, before |-> db,
             result |-> NoError]
  /\ pool = IdlePool
  /\ run = IdleRun
  /\ tz = 0
  /\ race = IdleRace
  /\ loop = IdleLoop

\* uniquePostSlug is called for an item: slug = desiredSlug, suffix = 2.
SlugCall ==
  /\ loop.pc \in {"idle", "returned"}
  /\ loop.calls < MaxSlugCalls
  /\ \E desiredSlug \in DesiredSlugs, postId \in {1, 2, 3} :
       loop' = [pc |-> "while", desiredSlug |-> desiredSlug,
                slug |-> desiredSlug, suffix |-> 2, postId |-> postId,
                postType |-> db.wp_posts[postId].post_type,
                postParent |-> db.wp_posts[postId].post_parent,
                calls |-> loop.calls + 1]
  /\ UNCHANGED <<db, now, nreq, last, pool, run, tz, race>>

\* Mutant of SlugIterate: the suffix is not incremented.
SlugIterate_SameSuffix ==
  /\ loop.pc = "while"
  /\ loop' =
       IF checkSlugExists(db, loop.slug, loop.postType, loop.postId,
                          loop.postParent)
         THEN [loop EXCEPT !.slug = Append(loop.desiredSlug, loop.suffix)]
         ELSE [loop EXCEPT !.pc = "returned"]
  /\ UNCHANGED <<db, now, nreq, last, pool, run, tz, race>>

\* One evaluation of the loop condition: the body when the slug is held,
\* the return when it is free.
SlugIterate ==
  /\ loop.pc = "while"
  /\ loop' =
       IF checkSlugExists(db, loop.slug, loop.postType, loop.postId,
                          loop.postParent)
         THEN [loop EXCEPT !.slug = Append(loop.desiredSlug, loop.suffix),
                           !.suffix = loop.suffix + 1]
         ELSE [loop EXCEPT !.pc = "returned"]
  /\ UNCHANGED <<db, now, nreq, last, pool, run, tz, race>>

NextSlug == SlugCall \/ SlugIterate

\* Every await of the loop resolves: the loop takes its next step.
SpecSlug == InitSlug /\ [][NextSlug]_vars /\ WF_vars(SlugIterate)

(***************************************************************************)
(* withTransaction, operation by operation (lib/db/connection).            *)
(***************************************************************************)

\* Number of executions of withTransaction started in one behaviour.
MaxTxRuns == 3

\* The caller moves to position pc after the named operation.
TxMove(p, operation, pc) ==
  pool' = [pool EXCEPT !.pc[p] = pc, !.trail[p] = Append(@, operation)]

\* getPool().getConnection(): a free connection is lent to the caller
\* (the caller waits while there is none), or the pool rejects and
\* withTransaction rejects before its try block.
GetConnection(p) ==
  /\ pool.pc[p] = "idle"
  /\ pool.runs < MaxTxRuns
  /\ \/ \E c \in Connections :
          /\ pool.holder[c] = ""
          /\ pool' = [pool EXCEPT !.pc[p] = "try", !.conn[p] = c,
                              !.holder[c] = p,
                              !.trail[p] = <<"getConnection">>,
                              !.runs = @ + 1]
     \/ pool' = [pool EXCEPT !.pc[p] = "done", !.conn[p] = 0,
                         !.trail[p] = <<"getConnection failed">>,
                         !.runs = @ + 1]
  /\ UNCHANGED <<db, now, nreq, last, run, tz, race, loop>>

\* await conn.beginTransaction()
BeginTransaction(p) ==
  /\ pool.pc[p] = "try"
  /\ \/ TxMove(p, "beginTransaction", "begun")
     \/ TxMove(p, "beginTransaction failed", "catch")
  /\ UNCHANGED <<db, now, nreq, last, run, tz, race, loop>>

\* await fn(conn): the callback issues its statements and returns or throws.
RunCallback(p) ==
  /\ pool.pc[p] = "begun"
  /\ \/ TxMove(p, "fn returned", "returned")
     \/ TxMove(p, "fn threw", "catch")
  /\ UNCHANGED <<db, now, nreq, last, run, tz, race, loop>>

\* await conn.commit()
Commit(p) ==
  /\ pool.pc[p] = "returned"
  /\ \/ TxMove(p, "commit", "finally")
     \/ TxMove(p, "commit failed", "catch")
  /\ UNCHANGED <<db, now, nreq, last, run, tz, race, loop>>

\* Mutant of Rollback: a failed rollback leaves withTransaction at once.
Rollback_NoFinally(p) ==
  /\ pool.pc[p] = "catch"
  /\ \/ TxMove(p, "rollback", "finally")
     \/ TxMove(p, "rollback failed", "done")
  /\ UNCHANGED <<db, now, nreq, last, run, tz, race, loop>>

\* catch: await conn.rollback(); throw, the finally block running whether
\* or not rollback itself failed.
Rollback(p) ==
  /\ pool.pc[p] = "catch"
  /\ \/ TxMove(p, "rollback", "finally")
     \/ TxMove(p, "rollback failed", "finally")
  /\ UNCHANGED <<db, now, nreq, last, run, tz, race, loop>>

\* finally: conn.release()
Release(p) ==
  /\ pool.pc[p] = "finally"
  /\ pool' = [pool EXCEPT !.pc[p] = "done",
                      !.holder[pool.conn[p]] = "",
                      !.trail[p] = Append(@, "release")]
  /\ UNCHANGED <<db, now, nreq, last, run, tz, race, loop>>

\* withTransaction has settled; the caller may call it again.
Settle(p) ==
  /\ pool.pc[p] = "done"
  /\ pool' = [pool EXCEPT !.pc[p] = "idle"]
  /\ UNCHANGED <<db, now, nreq, last, run, tz, race, loop>>

NextTx ==
  \E p \in Callers :
    \/ GetConnection(p)
    \/ BeginTransaction(p)
    \/ RunCallback(p)
    \/ Commit(p)
    \/ Rollback(p)
    \/ Release(p)
    \/ Settle(p)

SpecTx == Init /\ [][NextTx]_vars

(***************************************************************************)
(* Properties.                                                             *)
(***************************************************************************)

Handled == nreq > 0

\* The last request was well-formed: a positive id and a schema-valid body.
WellFormed == last.req.postId > 0 /\ postUpdateSchema(last.req.body)

\* The last request's target existed, with type post, when it arrived.
TargetIsPost ==
  /\ PostExists(last.before, last.req.postId)
  /\ last.before.wp_posts[last.req.postId].post_type = "post"

TargetBefore == last.before.wp_posts[last.req.postId]

Authenticated == last.user # NoUser

Succeeded == last.result.status = 200

\* No item is both in the sticky registry and password-protected.
NoStickyWithPassword(d) ==
  \A id \in DOMAIN d.wp_posts :
    ~(isSticky(d, id) /\ d.wp_posts[id].post_password # "")

\* C1: a request that ends in an error leaves the committed database exactly
\* as it was before the request (post row, metadata, taxonomy assignments,
\* term counters, sticky registry).
C1_ErrorRollsBack ==
  (Handled /\ ~Succeeded) => db = last.before

\* The patch of the last request asks for sticky=true while a non-empty
\* password is supplied with it or already stored on the item.
StickyWithPasswordPatch ==
  /\ BodySticky(last.req.body)
  /\ \/ Has(last.req.body, "password") /\ last.req.body.password # ""
     \/ TargetBefore.post_password # ""

\* The patch of the last request would leave the item sticky and
\* password-protected if it were applied.
WouldCombine ==
  LET b == last.req.body
      sticky == IF Has(b, "sticky") THEN b.sticky
                ELSE isSticky(last.before, last.req.postId)
      password == IF Has(b, "password") THEN b.password
                  ELSE TargetBefore.post_password
  IN sticky /\ password # ""

\* C2: no item is ever both sticky and password-protected, and a patch that
\* would create the combination is rejected with nothing persisted.
C2_StickyPasswordExclusive ==
  /\ NoStickyWithPassword(db)
  /\ (Handled /\ WellFormed /\ TargetIsPost /\ WouldCombine)
       => (~Succeeded /\ db = last.before)

\* Witness for C2: sticky=true is refused on an item that an earlier request
\* password-protected.
C2_Witness ==
  /\ nreq = 2
  /\ last.req.body = [sticky |-> TRUE]
  /\ TargetIsPost
  /\ TargetBefore.post_password = "pw"
  /\ InitDb.wp_posts[last.req.postId].post_password = ""
  /\ last.result.code = "rest_invalid_field"
  /\ db = last.before

\* C3 as stated: sticky=true with a non-empty password (new or stored) is
\* always answered 400 rest_invalid_field.
C3_AlwaysInvalidField ==
  (Handled /\ WellFormed /\ Authenticated /\ TargetIsPost
     /\ StickyWithPasswordPatch)
    => (last.result.status = 400 /\ last.result.code = "rest_invalid_field")

\* The last request passed every check that precedes the sticky/password
\* rule: the permission checks and the status and author steps.
PassedEarlierChecks ==
  /\ ~isWpError(checkPermissions(last.before, TargetBefore, last.req.body,
                                 last.user))
  /\ ~isWpError(PrepareStatus(last.req.body, TargetBefore, last.user))
  /\ ~isWpError(PrepareAuthor(last.req.body, last.user))

\* C3 amended: such a patch is always rejected and nothing is persisted; the
\* rejection is 400 rest_invalid_field whenever the request passes the
\* permission checks and the status and author steps, which come first.
C3_Rejected ==
  (Handled /\ WellFormed /\ Authenticated /\ TargetIsPost
     /\ StickyWithPasswordPatch)
    => /\ ~Succeeded
       /\ db = last.before
       /\ PassedEarlierChecks =>
            (last.result.status = 400 /\ last.result.code = "rest_invalid_field")

\* Witness for C3: sticky=true and a new password in one patch, by a
\* principal allowed to make posts sticky, answered 400 rest_invalid_field.
C3_Witness ==
  /\ Handled
  /\ last.req.body = [sticky |-> TRUE, password |-> "pw"]
  /\ TargetIsPost
  /\ TargetBefore.post_password = ""
  /\ "publish_posts" \in last.user.allcaps
  /\ last.result.status = 400
  /\ last.result.code = "rest_invalid_field"

\* The patch field a column of wp_posts takes its value from ("" for the
\* columns no field sets).
ColumnField(c) ==
  CASE c = "post_title" -> "title"
    [] c = "post_content" -> "content"
    [] c = "post_excerpt" -> "excerpt"
    [] c = "post_status" -> "status"
    [] c = "post_date" -> "date"
    [] c = "post_date_gmt" -> "date_gmt"
    [] c = "post_name" -> "slug"
    [] c = "post_author" -> "author"
    [] c = "post_password" -> "password"
    [] c = "post_parent" -> "parent"
    [] OTHER -> IF c \in {"menu_order", "comment_status", "ping_status"}
                  THEN c ELSE ""

ModifiedColumns == {"post_modified", "post_modified_gmt"}

ModifiedFields == {"modified", "modified_gmt"}

TargetAfter == db.wp_posts[last.req.postId]

\* The representation of the target before the last request.
PriorResponse ==
  buildPostResponse(last.before, TargetBefore, "edit",
                    getOption(last.before, "siteurl"),
                    getOption(last.before, "gmt_offset"))

\* C4 as stated: after a successful update, a column whose field is absent
\* from the patch keeps its value, post_modified and post_modified_gmt
\* change, and a response field whose field is absent from the patch keeps
\* its value.
C4_AbsentFieldsKeepValue ==
  (Handled /\ Succeeded)
    => /\ \A c \in DOMAIN TargetBefore \ ModifiedColumns :
            ~Has(last.req.body, ColumnField(c))
              => TargetAfter[c] = TargetBefore[c]
       /\ \A c \in ModifiedColumns : TargetAfter[c] # TargetBefore[c]
       /\ \A f \in DOMAIN PriorResponse \ ModifiedFields :
            ~Has(last.req.body, f)
              => last.result.body[f] = PriorResponse[f]

\* The patch fields a column is computed from: date and date_gmt each set
\* both date columns.
ColumnSources(c) ==
  IF c \in {"post_date", "post_date_gmt"} THEN {"date", "date_gmt"}
  ELSE {ColumnField(c)}

\* The patch fields a response field is computed from.
ResponseSources(f) ==
  CASE f \in {"date", "date_gmt"} -> {"date", "date_gmt"}
    [] f = "link" -> {"status", "slug", "date", "date_gmt"}
    [] f = "permalink_template" -> {"date", "date_gmt"}
    [] f = "generated_slug" -> {"slug"}
    [] f \in {"content", "excerpt"} -> {f, "password"}
    [] f = "featured_media" -> {"featured_media", "meta"}
    [] f = "template" -> {"template", "meta"}
    [] OTHER -> {f}

\* C4 amended: after a successful update, a column changes only if one of
\* the fields it is computed from is in the patch (date and date_gmt each
\* set both date columns); post_modified and post_modified_gmt hold the time
\* of the update, so they change when time has passed since the previous
\* modification; a response field changes only if one of the fields it is
\* computed from is in the patch; a title patch on the requester's own draft
\* succeeds with title.raw as given.
C4_Frame ==
  /\ (Handled /\ Succeeded)
       => /\ \A c \in DOMAIN TargetBefore \ ModifiedColumns :
               ColumnSources(c) \cap DOMAIN last.req.body = {}
                 => TargetAfter[c] = TargetBefore[c]
          /\ \A c \in ModifiedColumns :
               /\ TargetAfter[c] = now
               /\ last.req.elapsed > 0 => TargetAfter[c] # TargetBefore[c]
          /\ \A f \in DOMAIN PriorResponse \ ModifiedFields :
               ResponseSources(f) \cap DOMAIN last.req.body = {}
                 => last.result.body[f] = PriorResponse[f]
          /\ \A id \in DOMAIN db.wp_posts \ {last.req.postId} :
               db.wp_posts[id] = last.before.wp_posts[id]
  /\ ( /\ Handled /\ TargetIsPost /\ Authenticated
       /\ last.req.body = TitleHello
       /\ TargetBefore.post_author = last.user.id
       /\ TargetBefore.post_status = "draft" )
       => /\ Succeeded
          /\ last.result.body.title.raw = "Hello"
          /\ TargetAfter.post_title = "Hello"

\* Witness for C4: a title patch on the requester's own draft, one second
\* after the previous modification, is answered 200 with the new title and
\* new modification times.
C4_Witness ==
  /\ Handled /\ Succeeded /\ TargetIsPost
  /\ last.req.body = TitleHello
  /\ last.req.elapsed = 1
  /\ TargetBefore.post_author = last.user.id
  /\ TargetBefore.post_status = "draft"
  /\ last.result.body.title.raw = "Hello"
  /\ TargetAfter.post_modified # TargetBefore.post_modified
  /\ TargetAfter.post_status = TargetBefore.post_status

\* Within one type and parent, no two items hold the same non-empty slug.
SlugsUnique(d) ==
  \A i, j \in DOMAIN d.wp_posts :
    (/\ i # j
     /\ d.wp_posts[i].post_type = d.wp_posts[j].post_type
     /\ d.wp_posts[i].post_parent = d.wp_posts[j].post_parent
     /\ d.wp_posts[i].post_name = d.wp_posts[j].post_name)
      => d.wp_posts[i].post_name = <<>>

\* C5: a successful update of a database whose slugs are unique leaves them
\* unique, whatever the statuses of the items.
C5_SlugsStayUnique ==
  (Handled /\ Succeeded /\ SlugsUnique(last.before)) => SlugsUnique(db)

\* The slug is held, before the last request, by another item of the
\* target's type and of the parent the target has after the request.
HeldByOther(slug) ==
  \E id \in DOMAIN last.before.wp_posts :
    /\ id # last.req.postId
    /\ last.before.wp_posts[id].post_type = TargetBefore.post_type
    /\ last.before.wp_posts[id].post_parent = db.wp_posts[last.req.postId].post_parent
    /\ last.before.wp_posts[id].post_name = slug

\* C6: when the slug assigned by a successful update is held by another item
\* of the same type and parent, the stored slug is slug-N for the smallest
\* N >= 2 such that slug-N is free; a slug no other item holds (the item's
\* own slug included) is stored as given.
C6_CollisionSuffix ==
  (Handled /\ Succeeded /\ Has(last.req.body, "slug")
     /\ last.req.body.slug # <<>>)
    => LET slug == last.req.body.slug
           stored == db.wp_posts[last.req.postId].post_name
       IN IF HeldByOther(slug)
            THEN \E n \in 2..(Cardinality(DOMAIN db.wp_posts) + 1) :
                   /\ stored = Append(slug, n)
                   /\ ~HeldByOther(stored)
                   /\ \A m \in 2..(n - 1) : HeldByOther(Append(slug, m))
            ELSE stored = slug

CapabilityDenials ==
  {"rest_cannot_edit", "rest_cannot_edit_others", "rest_cannot_assign_sticky",
   "rest_cannot_assign_term", "rest_cannot_publish"}

\* C7: a well-formed unauthenticated request is answered 401
\* rest_not_logged_in, and an authenticated request on an existing post whose
\* principal lacks the edit capability on it 403 rest_cannot_edit; nothing
\* is written.
C7_AuthorizationBoundary ==
  (Handled /\ WellFormed)
    => /\ ~Authenticated =>
            /\ last.result.status = 401
            /\ last.result.code = "rest_not_logged_in"
            /\ db = last.before
       /\ ( /\ Authenticated /\ TargetIsPost
            /\ ~checkUpdatePermission(last.user, TargetBefore) ) =>
            /\ last.result.status = 403
            /\ last.result.code = "rest_cannot_edit"
            /\ db = last.before

\* Witness for C7: an authenticated principal without the edit capability
\* on the item is answered 403 rest_cannot_edit.
C7_Witness ==
  /\ Handled /\ WellFormed /\ TargetIsPost /\ Authenticated
  /\ "edit_posts" \in last.user.allcaps
  /\ ~checkUpdatePermission(last.user, TargetBefore)
  /\ last.result.status = 403
  /\ last.result.code = "rest_cannot_edit"

\* C8: a capability denial answered to an authenticated principal carries
\* status 403, and 401 is answered only to unauthenticated requests.
C8_DenialIs403 ==
  Handled =>
    /\ (Authenticated /\ last.result.code \in CapabilityDenials)
         => last.result.status = 403
    /\ last.result.status = 401 => ~Authenticated

PublishStatuses == {"private", "publish", "future"}

\* The patch of the last request changes the status to st.
ChangesStatusTo(st) ==
  /\ Has(last.req.body, "status")
  /\ last.req.body.status = st
  /\ last.req.body.status # TargetBefore.post_status

\* C9: a change of status to private, publish or future by a principal
\* without publish_posts fails and writes nothing, with rest_cannot_publish
\* once the permission checks are passed (403 on the principal's own draft);
\* a change to draft or pending is allowed; so no item moves into private,
\* publish or future by a principal lacking publish_posts.
C9_PublishNeedsCapability ==
  (Handled /\ WellFormed /\ TargetIsPost)
    => /\ (\E st \in PublishStatuses : ChangesStatusTo(st))
            /\ "publish_posts" \notin last.user.allcaps
          => /\ ~Succeeded
             /\ db = last.before
             /\ ( /\ Authenticated
                  /\ ~isWpError(checkPermissions(last.before, TargetBefore,
                                                 last.req.body, last.user)) )
                  => last.result.code = "rest_cannot_publish"
             /\ ( /\ Authenticated
                  /\ TargetBefore.post_author = last.user.id
                  /\ TargetBefore.post_status = "draft"
                  /\ last.req.body = [status |-> last.req.body.status] )
                  => /\ last.result.status = 403
                     /\ last.result.code = "rest_cannot_publish"
       /\ ( /\ DOMAIN last.req.body = {"status"}
            /\ last.req.body.status \in {"draft", "pending"}
            /\ last.req.fault = "none"
            /\ Authenticated
            /\ checkUpdatePermission(last.user, TargetBefore) )
          => /\ Succeeded
             /\ db.wp_posts[last.req.postId].post_status = last.req.body.status
       /\ ( /\ db.wp_posts[last.req.postId].post_status \in PublishStatuses
            /\ db.wp_posts[last.req.postId].post_status
                 # TargetBefore.post_status )
          => "publish_posts" \in last.user.allcaps

\* Witness for C9: a principal without publish_posts asks to publish their
\* own draft and is answered 403 rest_cannot_publish.
C9_Witness ==
  /\ Handled /\ TargetIsPost /\ Authenticated
  /\ last.req.body = [status |-> "publish"]
  /\ TargetBefore.post_author = last.user.id
  /\ TargetBefore.post_status = "draft"
  /\ "publish_posts" \notin last.user.allcaps
  /\ last.result.status = 403
  /\ last.result.code = "rest_cannot_publish"
  /\ db = last.before

ReachedSideEffects ==
  /\ Handled /\ WellFormed /\ TargetIsPost /\ Authenticated
  /\ ~isWpError(checkPermissions(last.before, TargetBefore, last.req.body,
                                 last.user))
  /\ ~isWpError(prepareItemForDatabase(last.before, last.req.body,
                                       TargetBefore, last.user))
  /\ last.req.fault # "updatePost"

\* The stored featured-media association of the target, before and after.
ThumbnailBefore == getPostMeta(last.before, last.req.postId, "_thumbnail_id")

ThumbnailAfter == getPostMeta(db, last.req.postId, "_thumbnail_id")

\* The patch carries a meta entry for the given key.
MetaNames(key) ==
  /\ Has(last.req.body, "meta")
  /\ \E i \in 1..Len(last.req.body.meta) : last.req.body.meta[i][1] = key

ResetsDate ==
  \/ Has(last.req.body, "date") /\ last.req.body.date = <<"null">>
  \/ /\ ~Has(last.req.body, "date")
     /\ Has(last.req.body, "date_gmt")
     /\ last.req.body.date_gmt = <<"null">>

\* C12: after a successful update whose patch has date null (or date_gmt
\* null and no date), post_date and post_date_gmt are the zero date and the
\* response's date and date_gmt are null.
C12_NullDateResets ==
  (Handled /\ Succeeded /\ ResetsDate)
    => /\ TargetAfter.post_date = ZeroDate
       /\ TargetAfter.post_date_gmt = ZeroDate
       /\ last.result.body.date = <<"null">>
       /\ last.result.body.date_gmt = <<"null">>

\* Witness for C12: date_gmt null alone resets the dates of an item that
\* had both.
C12_Witness ==
  /\ Handled /\ Succeeded
  /\ last.req.body = [date_gmt |-> <<"null">>]
  /\ TargetBefore.post_date # ZeroDate
  /\ TargetBefore.post_date_gmt # ZeroDate
  /\ TargetAfter.post_date = ZeroDate
  /\ TargetAfter.post_date_gmt = ZeroDate
  /\ last.result.body.date = <<"null">>
  /\ last.result.body.date_gmt = <<"null">>

\* The number of occurrences of id x in a registry.
Occurrences(s, x) == Cardinality({i \in 1..Len(s) : s[i] = x})

\* The registry without the entries equal to x, in order.
Without(s, x) == SelectSeq(s, LAMBDA y : y # x)

\* C13: the registry never holds an id twice; a successful sticky=true
\* leaves the id in it exactly once, appended only if it was absent; a
\* successful sticky=false removes the id and changes nothing when it was
\* absent; the other entries are kept in both cases.
C13_StickyIdempotent ==
  /\ \A id \in DOMAIN db.wp_posts : Occurrences(getStickyPosts(db), id) <= 1
  /\ (Handled /\ Succeeded /\ Has(last.req.body, "sticky"))
       => LET id == last.req.postId
              before == getStickyPosts(last.before)
              after == getStickyPosts(db)
          IN IF last.req.body.sticky
               THEN /\ Occurrences(after, id) = 1
                    /\ includes(before, id) => after = before
                    /\ ~includes(before, id) => after = Append(before, id)
               ELSE /\ Occurrences(after, id) = 0
                    /\ after = Without(before, id)
                    /\ ~includes(before, id) => after = before

\* Witness for C13: sticky=true applied a second time to an item the first
\* application added leaves one entry.
C13_Witness ==
  /\ nreq = 2 /\ Succeeded
  /\ last.req.body = [sticky |-> TRUE]
  /\ ~includes(getStickyPosts(InitDb), last.req.postId)
  /\ includes(getStickyPosts(last.before), last.req.postId)
  /\ getStickyPosts(db) = getStickyPosts(last.before)
  /\ Occurrences(getStickyPosts(db), last.req.postId) = 1

Taxonomies == {"category", "post_tag", "post_format"}

\* The patch field that replaces the assignments of a taxonomy.
TaxonomyField(taxonomy) ==
  CASE taxonomy = "category" -> "categories"
    [] taxonomy = "post_tag" -> "tags"
    [] taxonomy = "post_format" -> "format"

\* The ids of a list that are terms of the taxonomy.
ExistingIn(d, termIds, taxonomy) ==
  {termIds[i] : i \in {j \in 1..Len(termIds) :
                         TtIdsOf(d, termIds[j], taxonomy) # {}}}

AssignedTo(d, tt) == {r \in d.wp_term_relationships : r[2] = tt}

\* C15: after a successful update, the counter of every term changes by +1
\* if the term became assigned to the item, by -1 if it stopped being
\* assigned, and by 0 otherwise; counters that equalled the number of
\* assigned items still do.
C15_CountersFollowAssignments ==
  (Handled /\ Succeeded)
    => /\ \A tt \in DOMAIN db.wp_term_taxonomy :
            LET was == <<last.req.postId, tt>> \in last.before.wp_term_relationships
                is == <<last.req.postId, tt>> \in db.wp_term_relationships
                delta == db.wp_term_taxonomy[tt].count
                           - last.before.wp_term_taxonomy[tt].count
            IN delta = IF is /\ ~was THEN 1 ELSE IF was /\ ~is THEN -1 ELSE 0
       /\ (\A tt \in DOMAIN db.wp_term_taxonomy :
             last.before.wp_term_taxonomy[tt].count
               = Cardinality(AssignedTo(last.before, tt)))
            => \A tt \in DOMAIN db.wp_term_taxonomy :
                 db.wp_term_taxonomy[tt].count = Cardinality(AssignedTo(db, tt))

\* The representation of the target rebuilt from the committed database.
RebuiltResponse ==
  buildPostResponse(db, TargetAfter, "edit", getOption(db, "siteurl"),
                    getOption(db, "gmt_offset"))

\* The value stored for a public meta entry of the patch.
StoredMeta(value) == IF value[1] = "number" THEN String(value[2]) ELSE value[2]

\* C16: the response of a successful update equals the representation
\* rebuilt from the committed database, its fields are the stored values,
\* and the values the patch wrote are the ones returned.
C16_ResponseReflectsStore ==
  (Handled /\ Succeeded)
    => LET r == last.result.body
           b == last.req.body
           id == last.req.postId
       IN /\ r = RebuiltResponse
          /\ r.title.raw = TargetAfter.post_title
          /\ r.content.raw = TargetAfter.post_content
          /\ r.excerpt.raw = TargetAfter.post_excerpt
          /\ r.slug = TargetAfter.post_name
          /\ r.status = TargetAfter.post_status
          /\ r.author = TargetAfter.post_author
          /\ r.password = TargetAfter.post_password
          /\ r.date = mysqlToRfc3339(TargetAfter.post_date)
          /\ r.sticky = isSticky(db, id)
          /\ r.format = getPostFormat(db, id)
          /\ r.categories = getObjectTerms(db, id, "category")
          /\ r.tags = getObjectTerms(db, id, "post_tag")
          /\ Has(b, "title") => r.title.raw = extractRawValue(b.title)
          /\ Has(b, "content") => r.content.raw = extractRawValue(b.content)
          /\ Has(b, "excerpt") => r.excerpt.raw = extractRawValue(b.excerpt)
          /\ Has(b, "author") => r.author = b.author
          /\ Has(b, "password") => r.password = b.password
          /\ Has(b, "sticky") => r.sticky = b.sticky
          /\ (Has(b, "status") /\ b.status # "trash") => r.status = b.status
          /\ (Has(b, "slug") /\ r.status \notin {"draft", "pending"})
               => r.slug = b.slug
          /\ r.date_gmt = prepareDateGmt(TargetAfter.post_date_gmt,
                                         TargetAfter.post_date,
                                         getOption(db, "gmt_offset"))
          /\ (Has(b, "template") /\ ~MetaNames("_wp_page_template"))
               => r.template = b.template
          /\ (Has(b, "format")
                /\ (b.format = "standard"
                      \/ getPostFormatTermId(db, b.format) # 0))
               => r.format = b.format
          /\ Has(b, "meta")
               => \A i \in 1..Len(b.meta) :
                    (b.meta[i][2] # <<"null">>
                       /\ ~startsWithUnderscore(b.meta[i][1]))
                      => /\ b.meta[i][1] \in DOMAIN r.meta
                         /\ r.meta[b.meta[i][1]] = StoredMeta(b.meta[i][2])

\* Witness for C16: a successful update writing the post row, the sticky
\* registry, the template, the format, terms and meta at once.
C16_Witness ==
  /\ Handled /\ Succeeded
  /\ {"title", "password", "template", "format", "categories", "tags", "meta",
      "featured_media", "date"} \subseteq DOMAIN last.req.body
  /\ last.result.body # PriorResponse
  /\ last.result.body = RebuiltResponse
  /\ last.result.body.title.raw = "Hello"
  /\ last.result.body.format = "aside"
  /\ last.result.body.meta = [k |-> "v", n |-> "7"]
  /\ last.result.body.categories = {2}

\* The operations that issue a statement on the connection.
StatementOps ==
  {"beginTransaction", "beginTransaction failed", "fn returned", "fn threw",
   "commit", "commit failed", "rollback", "rollback failed"}

InsideTransaction == {"try", "begun", "returned", "catch", "finally"}

\* C17: in every execution of withTransaction that acquired a connection
\* (the callback returns or throws, beginTransaction, commit or rollback
\* fails), the connection is released exactly once when the execution has
\* settled, not before, no statement follows the release, and a connection
\* out of the pool is held by an execution in progress.
C17_ReleasedExactlyOnce ==
  /\ \A p \in Callers :
       LET t == pool.trail[p]
           releases == {i \in 1..Len(t) : t[i] = "release"}
       IN /\ Cardinality(releases) <= 1
          /\ \A i \in releases : \A j \in (i + 1)..Len(t) : t[j] \notin StatementOps
          /\ (pool.pc[p] \in {"done", "idle"} /\ t # <<>>
                /\ t[1] = "getConnection")
               => /\ Cardinality(releases) = 1
                  /\ pool.holder[pool.conn[p]] # p
          /\ pool.pc[p] \in InsideTransaction
               => /\ releases = {}
                  /\ pool.holder[pool.conn[p]] = p
  /\ \A c \in Connections :
       pool.holder[c] # ""
         => /\ pool.pc[pool.holder[c]] \in InsideTransaction
            /\ pool.conn[pool.holder[c]] = c

\* Witness for C17: commit fails, then rollback fails, and the connection is
\* back in the pool after one release.
C17_Witness ==
  \E p \in Callers :
    /\ pool.pc[p] = "done"
    /\ pool.trail[p] = <<"getConnection", "beginTransaction", "fn returned",
                         "commit failed", "rollback failed", "release">>
    /\ pool.holder[pool.conn[p]] = ""

\* The primitive capabilities editing an item requires of a principal.
RequiredToEdit(user, post) ==
  IF post.post_author = user.id
    THEN IF post.post_status \in {"publish", "future"}
           THEN {"edit_published_posts"} ELSE {"edit_posts"}
    ELSE {"edit_others_posts"}
           \cup (IF post.post_status \in {"publish", "future"}
                   THEN {"edit_published_posts"} ELSE {})
           \cup (IF post.post_status = "private"
                   THEN {"edit_private_posts"} ELSE {})

\* The permission checks the last request fails, by their position.
FailedChecks ==
  LET b == last.req.body
      caps == last.user.allcaps
      lacksTerms(field, assign, manage) ==
        /\ Has(b, field) /\ b[field] # <<>>
        /\ caps \cap {assign, manage, "edit_posts"} = {}
  IN (IF ~(RequiredToEdit(last.user, TargetBefore) \subseteq caps)
        THEN {1} ELSE {})
     \cup (IF /\ Has(b, "author") /\ b.author # last.user.id
              /\ "edit_others_posts" \notin caps
             THEN {2} ELSE {})
     \cup (IF /\ Has(b, "sticky") /\ b.sticky
              /\ caps \cap {"edit_others_posts", "publish_posts"} = {}
             THEN {3} ELSE {})
     \cup (IF \/ lacksTerms("categories", "assign_categories",
                            "manage_categories")
              \/ lacksTerms("tags", "assign_post_tags", "manage_post_tags")
             THEN {4} ELSE {})

DenialCode ==
  <<"rest_cannot_edit", "rest_cannot_edit_others",
    "rest_cannot_assign_sticky", "rest_cannot_assign_term">>

\* C18: an authenticated request on an existing post that fails some of the
\* four permission checks is answered 403 with the code of the earliest
\* failing check and writes nothing; a request failing none is answered
\* with none of these codes.
C18_EarliestDenial ==
  (Handled /\ WellFormed /\ TargetIsPost /\ Authenticated)
    => IF FailedChecks # {}
         THEN /\ last.result.code = DenialCode[Min(FailedChecks)]
              /\ last.result.status = 403
              /\ db = last.before
         ELSE \A i \in 1..4 : last.result.code # DenialCode[i]

\* Witness for C18: the author check and the sticky check both fail, the
\* edit check passes, and the author check's code is returned.
C18_Witness ==
  /\ Handled /\ WellFormed /\ TargetIsPost /\ Authenticated
  /\ {2, 3} \subseteq FailedChecks
  /\ 1 \notin FailedChecks
  /\ last.result.code = "rest_cannot_edit_others"
  /\ db = last.before

\* C19: checkUpdatePermission holds of a principal and a post iff the
\* principal holds every capability editing the post requires; a request by
\* a principal lacking one of them is answered rest_cannot_edit.
C19_EditRequiresAll ==
  (Handled /\ TargetIsPost)
    => /\ checkUpdatePermission(last.user, TargetBefore)
            <=> RequiredToEdit(last.user, TargetBefore)
                  \subseteq last.user.allcaps
       /\ (Authenticated /\ WellFormed)
            => (last.result.code = "rest_cannot_edit"
                  <=> ~(RequiredToEdit(last.user, TargetBefore)
                          \subseteq last.user.allcaps))

\* Witness for C19: a principal holding edit_others_posts but not
\* edit_private_posts is denied another author's private post.
C19_Witness ==
  /\ Handled /\ TargetIsPost /\ Authenticated
  /\ TargetBefore.post_author # last.user.id
  /\ TargetBefore.post_status = "private"
  /\ "edit_others_posts" \in last.user.allcaps
  /\ "edit_private_posts" \notin last.user.allcaps
  /\ ~checkUpdatePermission(last.user, TargetBefore)
  /\ last.result.code = "rest_cannot_edit"

\* Every capability name some role definition mentions.
DefinedCapabilities ==
  UNION {DOMAIN wp_user_roles[r].capabilities : r \in DOMAIN wp_user_roles}

\* Role `role` is assigned to account u and grants capability c.
AssignedRoleGrants(u, role, c) ==
  /\ role \in DOMAIN wp_capabilities[u]
  /\ wp_capabilities[u][role] = TRUE
  /\ role \in DOMAIN wp_user_roles
  /\ c \in DOMAIN wp_user_roles[role].capabilities
  /\ wp_user_roles[role].capabilities[c] = TRUE

AllRoles == DOMAIN wp_user_roles \cup UNION {DOMAIN wp_capabilities[u] : u \in DOMAIN wp_capabilities}

\* C20: the resolved capability set of an authenticated principal holds a
\* capability iff some role assigned to the account grants it in the role
\* definitions; it holds nothing no definition mentions.
C20_UnionOfGrantedCapabilities ==
  (Handled /\ Authenticated /\ last.user.id \in DOMAIN wp_capabilities)
    => /\ \A c \in DefinedCapabilities :
            c \in last.user.allcaps
              <=> \E role \in AllRoles :
                     AssignedRoleGrants(last.user.id, role, c)
       /\ last.user.allcaps \subseteq DefinedCapabilities

\* Witness for C20: an account holding two roles, one granting
\* publish_posts and one mapping it to false, resolves to a set with
\* publish_posts; and without edit_others_posts, which no role grants it.
C20_Witness ==
  /\ Handled /\ Authenticated
  /\ \E r1, r2 \in AllRoles :
        /\ AssignedRoleGrants(last.user.id, r1, "publish_posts")
        /\ r2 \in DOMAIN wp_capabilities[last.user.id]
        /\ wp_capabilities[last.user.id][r2]
        /\ r2 \in DOMAIN wp_user_roles
        /\ "publish_posts" \in DOMAIN wp_user_roles[r2].capabilities
        /\ ~wp_user_roles[r2].capabilities["publish_posts"]
  /\ "publish_posts" \in last.user.allcaps
  /\ "edit_others_posts" \notin last.user.allcaps

\* The header carries acceptable credentials: the Basic scheme, a first
\* colon with a non-empty login before it and, after it, a secret that is
\* non-empty once its whitespace is removed, an account with that login, and
\* a stored hash of the account that verifies the stripped secret.
AcceptedAs(h, u) ==
  /\ h.scheme = "Basic"
  /\ \E i \in 1..Len(h.credentials) :
       /\ h.credentials[i] = ":"
       /\ \A j \in 1..(i - 1) : h.credentials[j] # ":"
       /\ LET login  == Spell(SubSeq(h.credentials, 1, i - 1))
              secret == Spell(SelectSeq(
                          SubSeq(h.credentials, i + 1, Len(h.credentials)),
                          LAMBDA c : c # " "))
          IN /\ login # "" /\ secret # ""
             /\ wp_users[u].user_login = login
             /\ u \in DOMAIN wp_application_passwords
             /\ \E k \in 1..Len(wp_application_passwords[u]) :
                  wp_application_passwords[u][k].password = bcryptHash(secret)

\* C21: the requester of a well-formed request is a principal iff the header
\* carries acceptable credentials, and then the principal is that account;
\* in every other case the request is answered 401 rest_not_logged_in (no
\* error is raised) and nothing is written.
C21_PrincipalIffCredentials ==
  (Handled /\ WellFormed)
    => /\ Authenticated
            <=> \E u \in DOMAIN wp_users : AcceptedAs(last.req.header, u)
       /\ Authenticated
            => /\ AcceptedAs(last.req.header, last.user.id)
               /\ last.user.login = wp_users[last.user.id].user_login
               /\ last.result.status # 401
       /\ ~Authenticated
            => /\ last.result.code = "rest_not_logged_in"
               /\ last.result.status = 401
               /\ db = last.before

\* Witness for C21: a principal authenticated from credentials whose secret
\* was sent with whitespace in it.
C21_Witness ==
  /\ Handled /\ WellFormed /\ Authenticated
  /\ \E i \in 1..Len(last.req.header.credentials) :
        /\ last.req.header.credentials[i] = " "
        /\ \E j \in 1..(i - 1) : last.req.header.credentials[j] = ":"
  /\ Succeeded

\* The step-by-step handler and the handler as one operation agree: a
\* request no database operation of which threw ends with the database and
\* the response handleUpdate computes.
StepsAgreeWithHandler ==
  (run.pc = "done" /\ ~run.thrown)
    => /\ db = handleUpdate(run.before, run.req, run.t).db
       /\ run.result = handleUpdate(run.before, run.req, run.t).result

\* The handler has finished the request in `run`.
Finished == run.pc = "done"

\* The request in `run` never held a connection and ran no step that reads
\* or writes the database.
NeverConnected ==
  /\ \A i \in 1..Len(run.trail) : run.trail[i] \in {"validate", "respond"}
  /\ ~run.held
  /\ run.wrote = <<>>

\* Field f of the body is declared by the schema and its value is not
\* allowed.
Offends(body, f) ==
  /\ f \in DOMAIN body
  /\ \/ f = "status" /\ body[f] \notin StatusEnum
     \/ f = "format" /\ body[f] \notin FormatEnum
     \/ f \in {"comment_status", "ping_status"}
          /\ body[f] \notin {"open", "closed"}
     \/ f = "author" /\ body[f] <= 0
     \/ f \in {"parent", "featured_media"} /\ body[f] < 0
     \/ f \in {"categories", "tags"}
          /\ \E i \in 1..Len(body[f]) : body[f][i] <= 0

\* What the rejection names: the first offending declared field (with the
\* index of its first offending element), else the unknown fields.
NamedByRejection(body) ==
  LET at(f) == CHOOSE i \in 1..Len(SchemaOrder) : SchemaOrder[i] = f
      offenders == {f \in SchemaFields : Offends(body, f)}
  IN IF offenders # {}
       THEN LET f == CHOOSE g \in offenders :
                       \A h \in offenders : at(g) <= at(h)
            IN IF f \in {"categories", "tags"}
                 THEN [path |-> f \o "." \o ToString(
                                  Min({i \in 1..Len(body[f]) : body[f][i] <= 0})
                                    - 1),
                       keys |-> {}]
                 ELSE [path |-> f, keys |-> {}]
       ELSE [path |-> "", keys |-> DOMAIN body \ SchemaFields]

\* The request in `run` was rejected by the schema, naming the first
\* offending field, without a connection and without touching the database.
RejectedBySchema ==
  /\ run.result.code = "rest_invalid_param"
  /\ run.result.status = 400
  /\ run.result.body.path = NamedByRejection(run.req.body).path
  /\ run.result.body.keys = NamedByRejection(run.req.body).keys
  /\ NeverConnected
  /\ db = run.before

Reached(step) == \E i \in 1..Len(run.trail) : run.trail[i] = step

\* The request in `run` passed authentication and no operation threw.
PassedAuthentication ==
  Finished /\ ~run.thrown /\ Reached("authenticate") /\ run.user # NoUser

\* The id of the request in `run` names no item of type post.
TargetMissing ==
  \/ ~PostExists(run.before, run.req.postId)
  \/ getPostById(run.before, run.req.postId).post_type # "post"

\* C23: an authenticated request for an id that names no item, or an item
\* whose type is not post, is answered 404 rest_post_invalid_id; no
\* permission check has run and nothing is written.
C23_MissingItemIs404 ==
  (PassedAuthentication /\ TargetMissing)
    => /\ run.result.code = "rest_post_invalid_id"
       /\ run.result.status = 404
       /\ ~Reached("authorize")
       /\ run.wrote = <<>>
       /\ db = run.before

\* Witness for C23: a principal who could not edit the attachment it names
\* is answered 404.
C23_Witness ==
  /\ PassedAuthentication
  /\ PostExists(run.before, run.req.postId)
  /\ getPostById(run.before, run.req.postId).post_type = "attachment"
  /\ ~userCan(run.user, "edit_post", getPostById(run.before, run.req.postId))
  /\ run.result.status = 404
  /\ db = run.before

\* The steps of a request in the order of the claim.
PipelineOrder ==
  <<"validate", "authenticate", "load", "authorize", "prepare", "persist",
    "format", "featured_media", "sticky", "template", "terms", "meta",
    "reread">>

PipelineSteps == {PipelineOrder[i] : i \in 1..Len(PipelineOrder)}

\* The steps of the pipeline a request's trail holds, in the order reached.
PipelineTrail(r) == SelectSeq(r.trail, LAMBDA s : s \in PipelineSteps)

\* s is t with some elements left out.
RECURSIVE IsSubsequence(_, _)
IsSubsequence(s, t) ==
  IF s = <<>> THEN TRUE
  ELSE IF t = <<>> THEN FALSE
  ELSE IF Head(s) = Head(t) THEN IsSubsequence(Tail(s), Tail(t))
  ELSE IsSubsequence(s, Tail(t))

\* The steps reached are an initial part of the pipeline; only the post-row
\* update and the side effects write, in pipeline order; a response 200 has
\* passed every step; an error returned is that of the last step reached.
StepsInOrder ==
  /\ \E n \in 0..Len(PipelineOrder) :
       PipelineTrail(run) = SubSeq(PipelineOrder, 1, n)
  /\ IsSubsequence(run.wrote, SubSeq(PipelineOrder, 6, 12))
  /\ IsSubsequence(run.wrote, PipelineTrail(run))
  /\ (Reached("respond") /\ run.result.status = 200)
       => PipelineTrail(run) = PipelineOrder
  /\ Reached("reread") => run.pc \in {"commit", "release", "rollback",
                                      "respond", "done"}

\* Once the request has an error, no further step of the pipeline runs, the
\* database the request sees is not written again, and the request keeps
\* an error.
ErrorAbsorbing ==
  (isWpError(run.result) /\ run.pc \notin {"idle", "done"})
    => /\ PipelineTrail(run') = PipelineTrail(run)
       /\ run'.wrote = run.wrote
       /\ run'.work \in {run.work, run.before}
       /\ isWpError(run'.result)
       /\ db' \in {db, run.work}

\* C24: the steps of a request run in the fixed order; the response step is
\* reached only after every earlier step passed; after a step yields an
\* error no later step runs or writes.
C24_FixedOrderAbsorbingError ==
  []StepsInOrder /\ [][ErrorAbsorbing]_vars

\* Witness for C24: a request answered 200 after all thirteen steps, the
\* post row and every side effect having written.
C24_Witness ==
  /\ Finished /\ run.result.status = 200
  /\ PipelineTrail(run) = PipelineOrder
  /\ run.wrote = SubSeq(PipelineOrder, 6, 12)

\* The request in `run` was answered with an error returned by the load,
\* the permission checks or the preparation.
EarlyFailure ==
  /\ Finished /\ ~run.thrown /\ isWpError(run.result)
  /\ PipelineTrail(run) # <<>>
  /\ PipelineTrail(run)[Len(PipelineTrail(run))]
       \in {"load", "authorize", "prepare"}

\* The errors of load, authorization and preparation, as code and status.
EarlyErrors ==
  {<<"rest_post_invalid_id", 404>>, <<"rest_post_invalid_id", 400>>,
   <<"rest_cannot_edit", 403>>, <<"rest_cannot_edit_others", 403>>,
   <<"rest_cannot_assign_sticky", 403>>, <<"rest_cannot_assign_term", 403>>,
   <<"rest_cannot_publish", 403>>, <<"rest_cannot_publish", 401>>,
   <<"rest_invalid_author", 400>>, <<"rest_invalid_field", 400>>}

\* C25: a request that fails during load, authorization or preparation has
\* written nothing: the post row, the metadata, the term assignments and
\* counters and the sticky registry are as before the request.
C25_EarlyFailureWritesNothing ==
  /\ EarlyFailure
       => /\ <<run.result.code, run.result.status>> \in EarlyErrors
          /\ run.wrote = <<>>
          /\ db = run.before
  /\ (/\ Handled /\ run.pc \in {"idle", "done"}
      /\ <<last.result.code, last.result.status>> \in EarlyErrors)
       => /\ db.wp_posts = last.before.wp_posts
          /\ db.wp_postmeta = last.before.wp_postmeta
          /\ db.wp_term_relationships = last.before.wp_term_relationships
          /\ db.wp_term_taxonomy = last.before.wp_term_taxonomy
          /\ db.wp_options = last.before.wp_options

\* Witness for C25: a patch with a password and sticky = true, which would
\* write a column and the registry, fails in the preparation and leaves the
\* database as it was.
C25_Witness ==
  /\ EarlyFailure
  /\ PipelineTrail(run)[Len(PipelineTrail(run))] = "prepare"
  /\ Has(run.req.body, "password") /\ Has(run.req.body, "sticky")
  /\ run.result.code = "rest_invalid_field"
  /\ db = run.before

\* The request in `run` has executed the update statement of step 6 and no
\* operation threw.
Persisted == Reached("persist") /\ ~run.thrown

\* The row of the request's item as the request sees it.
WorkRow == run.work.wp_posts[run.req.postId]

\* C26: the update statement sets post_modified and post_modified_gmt to the
\* current time whatever the patch holds, and leaves every column the patch
\* did not yield as it was; when it affects no row the request is answered
\* 500 db_update_error and no side effect runs or writes.
C26_TimestampsAlwaysZeroRowsFail ==
  Persisted
    => IF PostExists(run.work, run.req.postId)
         THEN /\ WorkRow.post_modified = run.t
              /\ WorkRow.post_modified_gmt = run.t
              /\ \A c \in DOMAIN WorkRow :
                   (c \notin DOMAIN run.data
                      /\ c \notin {"post_modified", "post_modified_gmt"})
                     => WorkRow[c] = ExistingPost[c]
              /\ run.result.code # "db_update_error"
         ELSE /\ run.result.code = "db_update_error"
              /\ run.result.status = 500
              /\ run.wrote = <<>>
              /\ \A s \in {"format", "featured_media", "sticky", "template",
                           "terms", "meta", "reread"} : ~Reached(s)
              /\ run.work = WithoutPost(run.before, run.req.postId)

\* Witness for C26: the item of a patch with only sticky = true was deleted
\* before the update statement; the request is answered 500 and the sticky
\* registry is as before.
C26_Witness ==
  /\ Finished /\ Persisted
  /\ DOMAIN run.req.body = {"sticky"}
  /\ run.result.code = "db_update_error"
  /\ db.wp_options = run.before.wp_options

\* An empty patch is answered 200 with both modification timestamps set to
\* the time of the request.
C26_EmptyPatchReached ==
  /\ Finished /\ Persisted /\ run.req.body = <<>>
  /\ run.result.status = 200
  /\ run.data = <<>>
  /\ db.wp_posts[run.req.postId].post_modified = run.t
  /\ db.wp_posts[run.req.postId].post_modified
       # run.before.wp_posts[run.req.postId].post_modified

\* The trail of the request in `run` ends with the given steps.
TrailEndsWith(steps) ==
  /\ Len(run.trail) >= Len(steps)
  /\ SubSeq(run.trail, Len(run.trail) - Len(steps) + 1, Len(run.trail)) = steps

\* C27: when a database operation of a request throws, at whatever step, the
\* handler still answers: with 500 rest_internal_error; the transaction, if
\* one was begun, is rolled back and the connection released before the
\* answer; and the committed database is the one before the request.
C27_ThrowRollsBackAnd500 ==
  /\ run.thrown
       => /\ run.pc \in {"rollback", "release", "respond", "done"}
          /\ run.result = WpError("rest_internal_error", 500)
          /\ db = run.before
  /\ (Finished /\ run.thrown)
       => /\ last.result = WpError("rest_internal_error", 500)
          /\ ~run.held
          /\ \/ /\ ~Reached("getConnection")
                /\ run.trail = <<"validate", "fault", "respond">>
             \/ /\ Reached("getConnection")
                /\ TrailEndsWith(<<"fault", "rollback", "release", "respond">>)

\* Witness for C27: an operation threw after the post row and two side
\* effects had been written; the answer is 500 and nothing is retained.
C27_Witness ==
  /\ Finished /\ run.thrown
  /\ Len(run.wrote) >= 3
  /\ run.wrote[1] = "persist"
  /\ last.result.code = "rest_internal_error"
  /\ db = run.before

\* The gmt_offset option the last request ran under.
SiteOffset == getOption(last.before, "gmt_offset")

\* The stored (post_date, post_date_gmt) of the last request's target.
StoredPair(post) == <<post.post_date, post.post_date_gmt>>

\* What a patch holding only the date field f of the last request stores.
PairFrom(body) ==
  LET dates == PrepareDates(last.before, body) IN
  IF dates = <<>> THEN StoredPair(TargetBefore) ELSE dates

\* The last request succeeded and its patch has the date field.
WithDate == Handled /\ Succeeded /\ Has(last.req.body, "date")

\* The last request succeeded and its patch has date_gmt but not date.
WithDateGmtOnly ==
  /\ Handled /\ Succeeded
  /\ ~Has(last.req.body, "date") /\ Has(last.req.body, "date_gmt")

\* When date is present the stored pair is the one the date field alone
\* gives, whatever date_gmt is; when only date_gmt is present it is used.
C28_OnePath ==
  /\ WithDate
       => StoredPair(TargetAfter) = PairFrom([date |-> last.req.body.date])
  /\ WithDateGmtOnly
       => StoredPair(TargetAfter)
            = PairFrom([date_gmt |-> last.req.body.date_gmt])

\* {date: L} stores (L, L - o) and {date_gmt: G} stores (G + o, G), for
\* date-times L and G written without zone designator.
C28_StoredPair ==
  /\ (WithDate /\ last.req.body.date[1] = "iso")
       => StoredPair(TargetAfter)
            = <<last.req.body.date[2], last.req.body.date[2] - SiteOffset>>
  /\ (WithDateGmtOnly /\ last.req.body.date_gmt[1] = "iso")
       => StoredPair(TargetAfter)
            = <<last.req.body.date_gmt[2] + SiteOffset,
                last.req.body.date_gmt[2]>>

\* {date: L} and {date_gmt: L - o} store the same pair.
C28_SamePair ==
  (WithDate /\ last.req.body.date[1] = "iso")
    => PairFrom([date |-> last.req.body.date])
         = PairFrom([date_gmt |-> <<"iso", last.req.body.date[2] - SiteOffset>>])

\* A non-zero pair stored by a date field satisfies
\* post_date_gmt = post_date - o.
C28_OffsetRelation ==
  ((WithDate \/ WithDateGmtOnly) /\ StoredPair(TargetAfter) # StoredPair(TargetBefore)
     /\ StoredPair(TargetAfter) # <<ZeroDate, ZeroDate>>)
    => TargetAfter.post_date_gmt = TargetAfter.post_date - SiteOffset

\* C28: exactly one date path executes per request: a present date alone
\* determines the stored dates (date_gmt is ignored, even when date is null),
\* and date_gmt is used when it is the only one present; for the offset o,
\* {date: L} stores (L, L - o) and {date_gmt: G} stores (G + o, G), so
\* {date: L} and {date_gmt: L - o} store the same pair, and every stored
\* non-zero pair satisfies post_date_gmt = post_date - o.
C28_OneDatePathStoresOffsetPair ==
  /\ C28_OnePath
  /\ C28_StoredPair
  /\ C28_SamePair
  /\ C28_OffsetRelation

\* The same statement for a process whose time zone is UTC.
C28_InUtcProcess == (tz = 0) => C28_OneDatePathStoresOffsetPair

\* A date written without zone designator was stored by a process east of
\* UTC.
C28_Reached ==
  /\ WithDate /\ last.req.body = [date |-> <<"iso", 200>>]
  /\ tz = 1 /\ SiteOffset = 2
  /\ StoredPair(TargetAfter) = <<199, 197>>

\* The last request was handled up to the permission checks and its patch
\* has the author field.
AuthorPatched ==
  /\ Handled /\ WellFormed /\ Authenticated /\ TargetIsPost
  /\ Has(last.req.body, "author")

\* The patch author is not the principal and names no account.
UnknownAuthor ==
  /\ last.req.body.author # last.user.id
  /\ ~userExists(last.req.body.author)

\* The last request passed the permission checks and the status step, which
\* come before the author step.
ReachedAuthorStep ==
  /\ ~isWpError(checkPermissions(last.before, TargetBefore, last.req.body,
                                 last.user))
  /\ ~isWpError(PrepareStatus(last.req.body, TargetBefore, last.user))

\* C29 as stated: an unknown author is answered 400 rest_invalid_author with
\* nothing written, and any other author becomes post_author.
C29_AuthorExistsOrRejected ==
  AuthorPatched
    => /\ UnknownAuthor
            => /\ last.result.status = 400
               /\ last.result.code = "rest_invalid_author"
               /\ db = last.before
       /\ ~UnknownAuthor => TargetAfter.post_author = last.req.body.author

\* C29 amended: a patch whose author is not the principal and names no
\* account never succeeds and writes nothing, and is answered 400
\* rest_invalid_author once it passes the permission checks and the status
\* step; an author that is the principal or an existing account is
\* post_author whenever the request succeeds or the post row is written.
C29_AuthorStep ==
  AuthorPatched
    => /\ UnknownAuthor
            => /\ ~Succeeded
               /\ db = last.before
               /\ ReachedAuthorStep
                    => /\ last.result.status = 400
                       /\ last.result.code = "rest_invalid_author"
       /\ (~UnknownAuthor /\ (Succeeded \/ TargetAfter # TargetBefore))
            => TargetAfter.post_author = last.req.body.author

\* Witness for C29: the editor names account 9, which does not exist, as
\* author of item 2 and is answered 400 rest_invalid_author; nothing is
\* written.
C29_Witness ==
  /\ AuthorPatched /\ UnknownAuthor /\ ReachedAuthorStep
  /\ last.req.body = [author |-> 9]
  /\ last.user.id = 1
  /\ last.result.status = 400
  /\ last.result.code = "rest_invalid_author"
  /\ db = last.before

\* The editor hands item 2 to account 5, which exists.
C29_ExistingAuthorReached ==
  /\ AuthorPatched /\ Succeeded
  /\ last.req.body = [author |-> 5]
  /\ TargetBefore.post_author = 2
  /\ TargetAfter.post_author = 5

\* A principal keeps its own id as author.
C29_OwnIdReached ==
  /\ AuthorPatched /\ Succeeded
  /\ last.req.body.author = last.user.id
  /\ TargetAfter.post_author = last.user.id

\* The post_format terms of an item: the term_ids its relationships lead to.
FormatTerms(d, postId) ==
  {d.wp_term_taxonomy[r[2]].term_id :
     r \in {x \in d.wp_term_relationships :
              /\ x[1] = postId
              /\ d.wp_term_taxonomy[x[2]].taxonomy = "post_format"}}

\* The terms of the post_format taxonomy named post-format-<format>.
TermsNamed(d, format) ==
  {t \in DOMAIN wp_terms :
     /\ wp_terms[t].slug = <<"post-format-", format>>
     /\ \E tt \in DOMAIN d.wp_term_taxonomy :
          /\ d.wp_term_taxonomy[tt].term_id = t
          /\ d.wp_term_taxonomy[tt].taxonomy = "post_format"}

\* The last request succeeded and its patch has the format field.
FormatPatched == Handled /\ Succeeded /\ Has(last.req.body, "format")

\* C30: with format in the patch, 'standard' removes every post_format
\* assignment of the item and the response's format is 'standard'; another
\* value whose term exists leaves the item with exactly that one post_format
\* term and the response's format is the value; a value whose term does not
\* exist leaves the assignment as it was, and a patch of that field alone by
\* a principal allowed to edit the item raises no error.
C30_FormatAssignment ==
  /\ FormatPatched
       => LET format == last.req.body.format
              id == last.req.postId
          IN /\ format = "standard"
                  => /\ FormatTerms(db, id) = {}
                     /\ last.result.body.format = "standard"
             /\ (format # "standard" /\ TermsNamed(last.before, format) # {})
                  => /\ FormatTerms(db, id) = TermsNamed(last.before, format)
                     /\ Cardinality(FormatTerms(db, id)) = 1
                     /\ last.result.body.format = format
             /\ (format # "standard" /\ TermsNamed(last.before, format) = {})
                  => /\ FormatTerms(db, id) = FormatTerms(last.before, id)
                     /\ db.wp_term_relationships
                          = last.before.wp_term_relationships
                     /\ last.result.body.format
                          = getPostFormat(last.before, id)
  /\ (/\ Handled /\ WellFormed /\ Authenticated /\ TargetIsPost
      /\ DOMAIN last.req.body = {"format"}
      /\ ~isWpError(checkPermissions(last.before, TargetBefore, last.req.body,
                                     last.user)))
       => Succeeded

\* Witness for C30: 'quote', which has no term, is set on an item whose
\* format is 'aside'; the request succeeds and the item keeps 'aside'.
C30_Witness ==
  /\ FormatPatched
  /\ last.req.body = [format |-> "quote"]
  /\ TermsNamed(last.before, "quote") = {}
  /\ FormatTerms(last.before, last.req.postId) = {4}
  /\ FormatTerms(db, last.req.postId) = {4}
  /\ last.result.body.format = "aside"

\* 'gallery' replaces 'aside'.
C30_ReplacedReached ==
  /\ FormatPatched
  /\ last.req.body.format = "gallery"
  /\ FormatTerms(last.before, last.req.postId) = {4}
  /\ FormatTerms(db, last.req.postId) = {5}
  /\ last.result.body.format = "gallery"

\* 'standard' clears 'aside'.
C30_ClearedReached ==
  /\ FormatPatched
  /\ last.req.body.format = "standard"
  /\ FormatTerms(last.before, last.req.postId) = {4}
  /\ FormatTerms(db, last.req.postId) = {}
  /\ last.result.body.format = "standard"

\* The values of the rows of a key of an item, in meta_id order.
RowsOfKey(d, postId, key) ==
  SelectSeq(d.wp_postmeta,
            LAMBDA row : row.post_id = postId /\ row.meta_key = key)

\* The keys another field of the last request's patch writes or deletes.
KeysOfOtherFields ==
  (IF Has(last.req.body, "featured_media") THEN {"_thumbnail_id"} ELSE {})
    \cup (IF Has(last.req.body, "template") THEN {"_wp_page_template"} ELSE {})

\* The last request succeeded and its patch has the meta field.
MetaPatched == Handled /\ Succeeded /\ Has(last.req.body, "meta")

\* C31: for each meta entry of the patch with a non-null value, after the
\* update reading that key for the item returns the written value, and the
\* number of rows of that key is unchanged if a row existed (the first one
\* holds the value, the others are as they were) and is one if none existed;
\* an entry whose value is null leaves the rows of its key as they were.
C31_MetaUpsert ==
  MetaPatched
    => \A i \in 1..Len(last.req.body.meta) :
         LET key == last.req.body.meta[i][1]
             value == last.req.body.meta[i][2]
             id == last.req.postId
             old == RowsOfKey(last.before, id, key)
             new == RowsOfKey(db, id, key)
         IN IF value # <<"null">>
              THEN /\ getPostMeta(db, id, key) = <<"value", StoredMeta(value)>>
                   /\ new[1].meta_value = StoredMeta(value)
                   /\ key \notin KeysOfOtherFields
                        => /\ Len(new) = IF old = <<>> THEN 1 ELSE Len(old)
                           /\ \A j \in 2..Len(new) : new[j] = old[j]
              ELSE key \notin KeysOfOtherFields => new = old

\* Witness for C31: a value written to a key of which the item has two rows
\* replaces the first and keeps the second.
C31_Witness ==
  /\ MetaPatched
  /\ last.req.postId = 2
  /\ last.req.body = [meta |-> <<<<"k", <<"string", "v">>>>>>]
  /\ Len(RowsOfKey(last.before, 2, "k")) = 2
  /\ Len(RowsOfKey(db, 2, "k")) = 2
  /\ RowsOfKey(db, 2, "k")[1].meta_value = "v"
  /\ RowsOfKey(db, 2, "k")[2].meta_value = "y"
  /\ getPostMeta(db, 2, "k") = <<"value", "v">>

\* A key without row gets one, and a null entry of the same patch writes and
\* deletes nothing.
C31_InsertedReached ==
  /\ MetaPatched
  /\ last.req.postId = 2
  /\ last.req.body = [meta |-> <<<<"k", <<"null">>>>, <<"j", <<"string", "w">>>>>>]
  /\ RowsOfKey(last.before, 2, "j") = <<>>
  /\ Len(RowsOfKey(db, 2, "j")) = 1
  /\ RowsOfKey(db, 2, "k") = RowsOfKey(last.before, 2, "k")
  /\ RowsOfKey(db, 2, "k") # <<>>

\* C32: whatever requests were handled, the featured-media association of
\* every item (its _thumbnail_id metadata), when present, references an
\* existing item of type attachment.
C32_FeaturedMediaIsAttachment ==
  \A id \in DOMAIN db.wp_posts :
    LET thumbnailId == getPostMeta(db, id, "_thumbnail_id") IN
    thumbnailId # <<"null">>
      => isValidAttachment(db, parseInt(thumbnailId[2]))

\* The same for patches without a meta entry for _thumbnail_id: an
\* association recorded by the featured_media field references an attachment.
C32_ThroughFeaturedMediaField ==
  (Handled /\ ~MetaNames("_thumbnail_id")
     /\ ThumbnailAfter # ThumbnailBefore /\ ThumbnailAfter # <<"null">>)
    => isValidAttachment(db, parseInt(ThumbnailAfter[2]))

\* An accepted patch recorded the id of no item as featured media.
C32_Reached ==
  /\ Handled /\ Succeeded
  /\ MetaNames("_thumbnail_id")
  /\ ThumbnailAfter = <<"value", "9">>
  /\ ~PostExists(db, 9)
  /\ last.result.body.featured_media = 9

\* The last request succeeded and its patch has the status field.
StatusPatched == Handled /\ Succeeded /\ Has(last.req.body, "status")

\* C33: after a successful update whose patch carries a status of the
\* schema's enumeration, the item's persisted status and the response's
\* status equal the patch status.
C33_StatusPersisted ==
  StatusPatched
    => /\ TargetAfter.post_status = last.req.body.status
       /\ last.result.body.status = last.req.body.status

\* The same for every value of the enumeration but trash.
C33_ExceptTrash ==
  (StatusPatched /\ last.req.body.status # "trash") => C33_StatusPersisted

\* A patch with status trash succeeded and the item is a draft.
C33_Reached ==
  /\ StatusPatched
  /\ last.req.body.status = "trash"
  /\ TargetBefore.post_status = "publish"
  /\ TargetAfter.post_status = "draft"
  /\ last.result.body.status = "draft"

\* The caller's request has been handled and its transaction has ended.
Settled(c) == race[c].pc = "idle" /\ race[c].served > 0

\* Both callers' requests have been answered 200.
BothSucceeded ==
  \A c \in Callers : Settled(c) /\ race[c].result.status = 200

\* The two requests target different items.
DifferentItems == race["a"].req.postId # race["b"].req.postId

\* No transaction ran while the other was in progress.
OneAfterTheOther == \A c \in Callers : ~race[c].overlapped

\* Both requests set sticky = true, on different items.
BothSetSticky ==
  /\ BothSucceeded /\ DifferentItems
  /\ \A c \in Callers : race[c].req.body = [sticky |-> TRUE]

\* C34: when two requests that set sticky = true on different items, each in
\* its own transaction, both succeed, the committed sticky registry holds
\* both ids, however the two transactions interleave.
C34_NoLostStickyAddition ==
  BothSetSticky
    => \A c \in Callers : isSticky(db, race[c].req.postId)

\* The same when one transaction starts after the other has committed.
C34_OneAfterTheOther == OneAfterTheOther => C34_NoLostStickyAddition

\* Both additions were answered 200 and the registry lacks one of them.
C34_Reached ==
  /\ BothSetSticky
  /\ race["a"].req.postId = 2 /\ race["b"].req.postId = 3
  /\ ~isSticky(db, 2) /\ isSticky(db, 3)

\* The two requests target the same item (not sticky and without password
\* before either), one setting sticky = true and the other a password.
StickyAgainstPassword ==
  /\ \A c \in Callers : Settled(c)
  /\ ~DifferentItems
  /\ ~isSticky(InitDb, race["a"].req.postId)
  /\ {race[c].req.body : c \in Callers}
       = {[sticky |-> TRUE], [password |-> "pw"]}

\* C35: however two requests on the same item interleave, one setting
\* sticky = true and the other a non-empty password, the committed item is
\* never both in the sticky registry and password-protected, and at most one
\* of the two requests succeeds.
C35_StickyPasswordExclusiveUnderRace ==
  /\ NoStickyWithPassword(db)
  /\ StickyAgainstPassword => ~BothSucceeded

\* The same when one transaction starts after the other has committed.
C35_OneAfterTheOther ==
  OneAfterTheOther => C35_StickyPasswordExclusiveUnderRace

\* Both requests were answered 200 and item 2 is sticky with a password.
C35_Reached ==
  /\ StickyAgainstPassword /\ BothSucceeded
  /\ race["a"].req.postId = 2
  /\ isSticky(db, 2) /\ db.wp_posts[2].post_password = "pw"

\* The two requests give the same slug to different draft or pending items
\* of the same type and parent.
SameSlugForTwoDrafts ==
  /\ BothSucceeded /\ DifferentItems
  /\ \A c \in Callers :
       /\ race[c].req.body = [slug |-> <<"z">>]
       /\ db.wp_posts[race[c].req.postId].post_status \in {"draft", "pending"}
  /\ db.wp_posts[race["a"].req.postId].post_type
       = db.wp_posts[race["b"].req.postId].post_type
  /\ db.wp_posts[race["a"].req.postId].post_parent
       = db.wp_posts[race["b"].req.postId].post_parent

\* C36: however two requests interleave that assign the same slug to two
\* different draft or pending items of the same type and parent, the two
\* committed slugs differ.
C36_SlugsDifferUnderRace ==
  SameSlugForTwoDrafts
    => db.wp_posts[race["a"].req.postId].post_name
         # db.wp_posts[race["b"].req.postId].post_name

\* The same when one transaction starts after the other has committed.
C36_OneAfterTheOther == OneAfterTheOther => C36_SlugsDifferUnderRace

\* Both requests were answered 200 and the drafts 2 and 3 hold the same slug.
C36_Reached ==
  /\ SameSlugForTwoDrafts
  /\ db.wp_posts[2].post_name = <<"z">>
  /\ db.wp_posts[3].post_name = <<"z">>

\* The slug is held by an item other than the one the call is for, of the
\* call's type and parent.
HeldByAnother(slug) ==
  \E id \in DOMAIN db.wp_posts :
    /\ id # loop.postId
    /\ db.wp_posts[id].post_type = loop.postType
    /\ db.wp_posts[id].post_parent = loop.postParent
    /\ db.wp_posts[id].post_name = slug

\* The call has returned a slug no other item of the type and parent holds,
\* the desired one when that is free and the value of the model's function.
ReturnsFreeSlug ==
  loop.pc = "returned"
    => /\ ~HeldByAnother(loop.slug)
       /\ ~HeldByAnother(loop.desiredSlug) => loop.slug = loop.desiredSlug
       /\ loop.slug = uniquePostSlug(db, loop.desiredSlug, loop.postId,
                                     "publish", loop.postType, loop.postParent)

\* The loop body runs at most once per existing item.
BoundedSuffix == loop.suffix <= Cardinality(DOMAIN db.wp_posts) + 2

\* C37: uniquePostSlug terminates for every set of existing items and every
\* desired slug, and the slug it returns is held by no other item of the same
\* type and parent; it is the desired slug when that slug is free.
C37_UniqueSlugTerminatesFree ==
  /\ [](ReturnsFreeSlug /\ BoundedSuffix)
  /\ (loop.pc = "while") ~> (loop.pc = "returned")

\* Witness for C37: the desired slug and its form with suffix 2 are held by
\* other items of the type and parent, and the call returns the form with
\* suffix 3.
C37_Witness ==
  /\ loop.pc = "returned"
  /\ loop.desiredSlug = <<"z">>
  /\ HeldByAnother(<<"z">>) /\ HeldByAnother(<<"z", 2>>)
  /\ loop.slug = <<"z", 3>>
  /\ loop.suffix = 4

\* The date field the code looks at (date, or date_gmt when date is absent)
\* is a string that does not parse as a date-time.
UnparsableDate ==
  /\ Handled
  /\ \/ Has(last.req.body, "date") /\ last.req.body.date[1] = "text"
     \/ /\ ~Has(last.req.body, "date") /\ Has(last.req.body, "date_gmt")
        /\ last.req.body.date_gmt[1] = "text"

\* The last request without its date fields.
WithoutDates ==
  [last.req EXCEPT
     !.body = [f \in DOMAIN last.req.body \ {"date", "date_gmt"} |->
                 last.req.body[f]]]

\* The target's row but for the modified timestamps.
ButModified(post) ==
  [c \in DOMAIN post \ {"post_modified", "post_modified_gmt"} |-> post[c]]

\* C38: a patch whose date (or date_gmt, when date is absent) is a string
\* that does not parse is not rejected for it: the request is answered, and
\* the database left, as for the same patch without its date fields, so a
\* patch that is otherwise acceptable succeeds; post_date and post_date_gmt
\* keep their prior values and, other than the fields provided, only the
\* modified timestamps change.
C38_UnparsableDateIgnored ==
  UnparsableDate
    => /\ db = handleUpdate(last.before, WithoutDates, now).db
       /\ last.result = handleUpdate(last.before, WithoutDates, now).result
       /\ StoredPair(TargetAfter) = StoredPair(TargetBefore)
       /\ DOMAIN last.req.body \subseteq {"date", "date_gmt"}
            => /\ Succeeded
               /\ ButModified(TargetAfter) = ButModified(TargetBefore)
               /\ TargetAfter.post_modified = now
               /\ \A id \in DOMAIN db.wp_posts \ {last.req.postId} :
                    db.wp_posts[id] = last.before.wp_posts[id]
               /\ db.wp_options = last.before.wp_options
               /\ db.wp_postmeta = last.before.wp_postmeta

\* Witness for C38: an unparsable date with a title; the request succeeds,
\* the title is written and the dates of the published item are kept.
C38_Witness ==
  /\ UnparsableDate /\ Succeeded
  /\ last.req.postId = 1
  /\ last.req.body = [date |-> <<"text", "soon">>,
                      title |-> <<"string", "Hello">>]
  /\ TargetAfter.post_title = "Hello"
  /\ StoredPair(TargetAfter) = StoredPair(TargetBefore)
  /\ TargetAfter.post_date # ZeroDate
  /\ TargetAfter.post_modified # TargetBefore.post_modified

\* An unparsable date hides a date_gmt that parses.
C38_DateGmtIgnoredReached ==
  /\ UnparsableDate /\ Succeeded
  /\ last.req.body = [date |-> <<"text", "soon">>, date_gmt |-> <<"iso", 300>>]
  /\ StoredPair(TargetAfter) = StoredPair(TargetBefore)

\* The last request passed the id and schema checks and authenticateRequest
\* returned null for its header.
FailedAuthentication == Handled /\ WellFormed /\ ~Authenticated

\* Ids a request may name: the items of the site and one that is missing.
TargetIds == {1, 2, 3, 4, 9}

\* Databases that differ from d in item p only: p missing, or p of any type,
\* owner, status and content.
ItemVariants(d, p) ==
  {d, [d EXCEPT !.wp_posts =
         [id \in DOMAIN d.wp_posts \ {p} |-> d.wp_posts[id]]]}
  \cup {[d EXCEPT !.wp_posts =
           (p :> PostRow(p, type, author, status, slug, 100, 98))
             @@ d.wp_posts] :
          type \in {"post", "page", "attachment"}, author \in {1, 2},
          status \in {"publish", "draft", "private"},
          slug \in {<<"a">>, <<"q">>}}

\* C39: a request that fails authentication, its id positive and its body
\* valid, is answered 401 rest_not_logged_in and writes nothing, and the
\* same request for any other id, the item missing or of any type, owner,
\* status and content, gets the same response and writes nothing either.
C39_UnauthenticatedLearnsNothing ==
  FailedAuthentication
    => /\ last.result = WpError("rest_not_logged_in", 401)
       /\ db = last.before
       /\ \A p \in TargetIds : \A d \in ItemVariants(last.before, p) :
            handleUpdate(d, [last.req EXCEPT !.postId = p], now)
              = [db |-> d, result |-> last.result]

\* Witness for C39: a wrong secret on an id that names no item, after an
\* earlier request of the editor changed the site, is answered 401 and
\* leaves the database alone.
C39_Witness ==
  /\ FailedAuthentication
  /\ last.req.postId = 9 /\ ~PostExists(last.before, 9)
  /\ last.req.header = Header("Basic", <<"ed", ":", "old">>)
  /\ last.before # InitDb
  /\ last.result = WpError("rest_not_logged_in", 401)
  /\ db = last.before

\* The same id with the editor's credentials is answered 404.
C39_AuthenticatedSees404Reached ==
  /\ Handled /\ WellFormed /\ Authenticated
  /\ last.req.postId = 9
  /\ last.result = WpError("rest_post_invalid_id", 404)

====
